---------------------------- MODULE Spec2Model ----------------------------
(***************************************************************************)
(* Session lifecycle, liveness sweep and command state machine of the      *)
(* blueorca ground station.                                                *)
(*                                                                         *)
(*   SpecServer : MAVLinkServerThread (src/mav_server.py), the UDP server  *)
(*                that keeps one DroneStatus per peer address and sweeps   *)
(*                silent peers.                                            *)
(*   SpecNode   : DroneNode (src/control.py), one vehicle link shared by   *)
(*                the background status tracker and the command callers.   *)
(*   SpecFlight : DroneNode with the calls arm, disarm, takeoff,           *)
(*                fly_to_target and set_throttle, made one after the       *)
(*                other.                                                   *)
(*   SpecMission : SpecFlight with land, set_flight_mode and fly_to_here   *)
(*                beside them.                                             *)
(*   SpecCleanupFair : DroneNode's connect(), tracker thread and cleanup(), *)
(*                with fair scheduling of the threads.                     *)
(*   SpecTelemetry : the telemetry parsers of both, applied to one         *)
(*                vehicle's message sequence.                              *)
(*   SpecMonitor : DroneMonitor (src/dashboard.py), the loop that connects *)
(*                and polls every DroneNode; SpecMonitorFair adds fair     *)
(*                scheduling of its threads.                               *)
(***************************************************************************)
EXTENDS Integers, Sequences, FiniteSets, TLC

VARIABLES
    \* ---- MAVLinkServerThread ----
    now,            \* time.time(), in whole time units
    drones,         \* self.drones : addr -> DroneStatus
    parsers,        \* self.parsers : the addresses that have a parser
    spc,            \* position of run()'s loop: "sweep" | "recv"
    seen,           \* history: addresses a complete message was received from
    lastMsgAt,      \* history: time of the last complete message per address
    connRun,        \* history: CONNECTED signals since the last DISCONNECTED
    discRun,        \* history: DISCONNECTED signals since the last message
    heard,          \* history: a message arrived since the last DISCONNECTED
    disconnects,    \* history: DISCONNECTED signals so far (0, 1, 2 = more)
    sweptSilent,    \* history: sweeps run past the timeout since the last message
    sweptAtLimit,   \* history: a sweep ran exactly timeout after the last message
    \* ---- DroneNode ----
    drone,          \* self.drone is not None
    tracking,       \* self.tracking
    is_armed,       \* self.is_armed
    flight_mode,    \* self.flight_mode
    current_status, \* self.current_status
    channel,        \* messages received on the link and not yet read
    nmsgs,          \* number of messages the vehicle has sent so far
    pc,             \* position of each caller thread
    cmd,            \* the command each caller is running
    max_retries,    \* land(max_retries=...)
    retry_delay,    \* land(retry_delay=...), 0 once the call has returned
    attempts,       \* land's local attempts
    rej,            \* history: attempts ended by a matching non-accepted ack
    timeouts,       \* history: attempts ended by recv_match returning None
    timer,          \* time elapsed in the caller's current wait or sleep
    sinceSend,      \* history: time elapsed since the caller's last send
    tx,             \* history: command messages sent by the current call
    sent,           \* history: the messages the caller's call has sent, in order
    ret,            \* value returned by the caller's last call
    cpc,            \* position of the thread running connect()
    ackArrived,     \* history: the vehicle has sent a COMMAND_ACK
    target_altitude, \* takeoff(target_altitude), per caller
    param,          \* history: param7 of the takeoff message, or the channel 3
                    \* value of the RC override, the caller's call has sent
    tracker_thread, \* self.tracker_thread: "None", or the position of the thread
    closed,         \* self.drone.close() has been called
    \* ---- telemetry aggregation of one vehicle's message sequence ----
    peer_status,    \* MAVLinkServerThread: self.drones[addr] of the peer, or Absent
    node_linked,    \* DroneNode: connect() has returned True
    node_status,    \* DroneNode: self.current_status
    lastOf,         \* history: the last message received of each kind
    lastHdg,        \* history: the last message received that carries a heading
    lastRecv,       \* history: the last message received
    nrecv,          \* history: number of messages received
    \* ---- DroneMonitor and its DroneNodes ----
    monitoring,     \* self.monitoring
    mpc,            \* position of the monitor thread
    mi,             \* the vehicle the monitor thread is visiting
    nodes,          \* self.drones : system_id -> DroneNode
    wire,           \* per vehicle, messages received on the link and not yet read
    vsent,          \* per vehicle, number of messages it has sent
    received,       \* history: a message of the vehicle has been read off its link
    tpc,            \* per tracker thread, the position message it is applying
    statuses,       \* self.statuses : system_id -> DroneStatus
    previous_connected, \* self.previous_connected
    upd,            \* history: parity of the status updates emitted per vehicle
    stopper         \* position of the thread that calls stop_monitoring()

serverVars == <<now, drones, parsers, spc, seen, lastMsgAt, connRun, discRun,
                heard, disconnects, sweptSilent, sweptAtLimit>>
nodeVars == <<drone, tracking, is_armed, flight_mode, current_status, channel,
              nmsgs, pc, cmd, max_retries, retry_delay, attempts, rej, timeouts,
              timer, sinceSend, tx, sent, ret, cpc, ackArrived>>
telemetryVars == <<peer_status, node_linked, node_status, lastOf, lastHdg,
                   lastRecv, nrecv>>
monitorVars == <<monitoring, mpc, mi, nodes, wire, vsent, received, tpc, statuses,
                 previous_connected, upd, stopper>>
\* the arguments DroneNode's calls put into their messages
paramVars == <<target_altitude, param>>
\* the tracker thread and the link as cleanup() sees them
cleanupVars == <<tracker_thread, closed>>
\* what the actions of one component leave alone
outsideServer == <<nodeVars, paramVars, cleanupVars, telemetryVars, monitorVars>>
outsideNode == <<serverVars, paramVars, cleanupVars, telemetryVars, monitorVars>>
outsideTelemetry == <<serverVars, nodeVars, paramVars, cleanupVars, monitorVars>>
outsideMonitor == <<serverVars, nodeVars, paramVars, cleanupVars, telemetryVars>>
\* what a call of DroneNode that writes its message's arguments leaves alone
outsideCall == <<serverVars, cleanupVars, telemetryVars, monitorVars>>
\* what connect(), the tracker thread and cleanup() leave alone
outsideCleanup == <<serverVars, paramVars, telemetryVars, monitorVars>>
vars == <<serverVars, nodeVars, paramVars, cleanupVars, telemetryVars, monitorVars>>

---------------------------------------------------------------------------
(* Bounds of the model *)

MaxTime == 12
MaxMsgCount == 2
MaxPacketMsgs == 2
MaxChan == 2
MaxMsgs == 2

Addr == {"a1", "a2"}
\* the threads that call commands on the node
Callers == {1, 2}

Bump(n) == IF n < 2 THEN n + 1 ELSE 2

---------------------------------------------------------------------------
(* MAVLinkServerThread (src/mav_server.py) *)

\* MAVLinkServerThread.__init__(timeout=10)
timeout == 10

\* DroneStatus(...) as built by _drone_connected
NewDroneStatus(t) ==
    [connected |-> TRUE, message_count |-> 0, first_message_time |-> t,
     last_heartbeat |-> t, connection_event |-> "CONNECTED"]

\* _drone_connected: a new DroneStatus is stored and drone_connected emitted
_drone_connected(st, a) ==
    [st EXCEPT !.drones = [b \in (DOMAIN st.drones) \cup {a} |->
                              IF b = a THEN NewDroneStatus(st.t) ELSE st.drones[b]],
               !.connRun[a] = Bump(@)]

\* _update_drone_status that stamps the session with the time of its first
\* message
_update_drone_status_first(st, a) ==
    [st EXCEPT !.drones[a].message_count = @ + 1,
               !.drones[a].last_heartbeat = st.drones[a].first_message_time]

\* _update_drone_status: counters and last_heartbeat of an existing session
_update_drone_status(st, a) ==
    [st EXCEPT !.drones[a].message_count = @ + 1,
               !.drones[a].last_heartbeat = st.t]

\* the body of _handle_packet's loop for one complete message
HandleMsgAlwaysNew(st, a) == _drone_connected(st, a)

HandleMsg(st, a) ==
    IF a \notin DOMAIN st.drones
    THEN _drone_connected(st, a)
    ELSE _update_drone_status(st, a)

RECURSIVE HandleMsgs(_, _, _)
HandleMsgs(st, a, n) ==
    IF n = 0 THEN st ELSE HandleMsgs(HandleMsg(st, a), a, n - 1)

\* _handle_packet(data, addr): data holds n complete messages (n = 0: noise)
HandlePacket(a, n) ==
    /\ spc = "recv"
    /\ a \in DOMAIN drones => drones[a].message_count + n <= MaxMsgCount
    /\ LET st == HandleMsgs([drones |-> drones, connRun |-> connRun, t |-> now], a, n)
       IN /\ drones' = st.drones
          /\ connRun' = st.connRun
    /\ parsers' = parsers \cup {a}
    /\ IF n > 0
       THEN /\ seen' = seen \cup {a}
            /\ lastMsgAt' = [lastMsgAt EXCEPT ![a] = now]
            /\ discRun' = [discRun EXCEPT ![a] = 0]
            /\ heard' = [heard EXCEPT ![a] = TRUE]
            /\ sweptSilent' = [sweptSilent EXCEPT ![a] = 0]
            /\ sweptAtLimit' = [sweptAtLimit EXCEPT ![a] = FALSE]
       ELSE UNCHANGED <<seen, lastMsgAt, discRun, heard, sweptSilent, sweptAtLimit>>
    /\ spc' = "sweep"
    /\ UNCHANGED <<now, disconnects>>
    /\ UNCHANGED outsideServer

\* socket.timeout in run(): nothing received, the loop continues
RecvTimeout ==
    /\ spc = "recv"
    /\ spc' = "sweep"
    /\ UNCHANGED <<now, drones, parsers, seen, lastMsgAt, connRun, discRun,
                   heard, disconnects, sweptSilent, sweptAtLimit>>
    /\ UNCHANGED outsideServer

\* the test of _check_disconnections
IsSilentAtLimit(status, current_time) ==
    current_time - status.last_heartbeat >= timeout

IsSilent(status, current_time) ==
    current_time - status.last_heartbeat > timeout

\* the sessions _check_disconnections leaves in self.drones
KeptAll(disconnected) == DOMAIN drones

Kept(disconnected) == (DOMAIN drones) \ disconnected

\* _check_disconnections, run at the top of every iteration of run()
CheckDisconnections ==
    /\ spc = "sweep"
    /\ LET disconnected == {a \in DOMAIN drones : IsSilent(drones[a], now)}
       IN /\ drones' = [a \in Kept(disconnected) |-> drones[a]]
          /\ parsers' = parsers \ disconnected
          /\ discRun' = [a \in Addr |->
                            IF a \in disconnected THEN Bump(discRun[a]) ELSE discRun[a]]
          /\ disconnects' = [a \in Addr |->
                            IF a \in disconnected THEN Bump(disconnects[a])
                            ELSE disconnects[a]]
          /\ connRun' = [a \in Addr |->
                            IF a \in disconnected THEN 0 ELSE connRun[a]]
          /\ heard' = [a \in Addr |->
                            IF a \in disconnected THEN FALSE ELSE heard[a]]
    /\ sweptSilent' = [a \in Addr |->
                          IF a \in seen /\ now - lastMsgAt[a] > timeout
                          THEN Bump(sweptSilent[a]) ELSE sweptSilent[a]]
    /\ sweptAtLimit' = [a \in Addr |->
                          sweptAtLimit[a] \/ (a \in seen /\ now - lastMsgAt[a] = timeout)]
    /\ spc' = "recv"
    /\ UNCHANGED <<now, seen, lastMsgAt>>
    /\ UNCHANGED outsideServer

\* time passes
Tick ==
    /\ now < MaxTime
    /\ now' = now + 1
    /\ UNCHANGED <<drones, parsers, spc, seen, lastMsgAt, connRun, discRun,
                   heard, disconnects, sweptSilent, sweptAtLimit>>
    /\ UNCHANGED outsideServer

InitServer ==
    /\ now = 0
    /\ drones = <<>>
    /\ parsers = {}
    /\ spc = "sweep"
    /\ seen = {}
    /\ lastMsgAt = [a \in Addr |-> 0]
    /\ connRun = [a \in Addr |-> 0]
    /\ discRun = [a \in Addr |-> 0]
    /\ heard = [a \in Addr |-> FALSE]
    /\ disconnects = [a \in Addr |-> 0]
    /\ sweptSilent = [a \in Addr |-> 0]
    /\ sweptAtLimit = [a \in Addr |-> FALSE]

NextServer ==
    \/ \E a \in Addr, n \in 0..MaxPacketMsgs : HandlePacket(a, n)
    \/ RecvTimeout
    \/ CheckDisconnections
    \/ Tick

---------------------------------------------------------------------------
(* DroneNode (src/control.py) *)

\* recv_match(..., timeout=1.0) of arm, disarm, land
RecvTimeoutSecs == 1
\* time.sleep(1) in arm
ArmSettleSecs == 1
\* time.sleep(1) in takeoff, after arm has returned
TakeoffSettleSecs == 1

\* a decoded MAVLink message; fields a message type lacks are 0 or "-"
Msg(type, command, result, base_mode, custom_mode, relative_alt) ==
    [type |-> type, command |-> command, result |-> result,
     base_mode |-> base_mode, custom_mode |-> custom_mode,
     relative_alt |-> relative_alt]

Heartbeat(base_mode, custom_mode) == Msg("HEARTBEAT", "-", "-", base_mode, custom_mode, 0)
CommandAck(command, result) == Msg("COMMAND_ACK", command, result, 0, 0, 0)
\* recv_match returned None
NoMsg == Msg("None", "-", "-", 0, 0, 0)

\* what the vehicle may send
Heartbeats == {Heartbeat(209, 4), Heartbeat(81, 0)}
CommandAcks == {CommandAck(k, r) : k \in {"ARM_DISARM", "NAV_LAND"},
                                   r \in {"ACCEPTED", "DENIED"}}
\* position telemetry is applied under SpecTelemetry and SpecMonitor
VehicleMsgs == Heartbeats \cup CommandAcks
\* what the vehicle may send while arm, takeoff and fly_to_target are called
FlightAcks == {CommandAck(k, r) : k \in {"ARM_DISARM", "NAV_TAKEOFF"},
                                  r \in {"ACCEPTED", "DENIED"}}
FlightMsgs == Heartbeats \cup FlightAcks

TelemetryTypes == {"HEARTBEAT", "GLOBAL_POSITION_INT"}

\* the MAV_CMD each command sends and expects in its COMMAND_ACK
CommandOf(k) ==
    CASE k = "arm" -> "ARM_DISARM"
      [] k = "disarm" -> "ARM_DISARM"
      [] k = "land" -> "NAV_LAND"
      [] k = "takeoff" -> "NAV_TAKEOFF"
      [] OTHER -> "-"

\* msg.base_mode & MAV_MODE_FLAG_SAFETY_ARMED (0x80)
ArmedFlag(base_mode) == (base_mode \div 128) % 2 = 1

\* mavutil.mode_mapping_acm.get(custom_mode), for the modes the vehicle reports
ModeName(custom_mode) ==
    CASE custom_mode = 0 -> "STABILIZE"
      [] custom_mode = 4 -> "GUIDED"
      [] OTHER -> "None"

\* _status_tracker: the field writes of one received message
ApplyStatus(status, m) ==
    CASE m.type = "HEARTBEAT" ->
            [status EXCEPT !.armed = ArmedFlag(m.base_mode),
                           !.mode = IF ModeName(m.custom_mode) # "None"
                                    THEN ModeName(m.custom_mode) ELSE @]
      [] m.type = "GLOBAL_POSITION_INT" ->
            [status EXCEPT !.altitude = m.relative_alt \div 1000]
      [] OTHER -> status

\* _status_tracker: self.flight_mode after one received message
ApplyFlightMode(fm, m) ==
    IF m.type = "HEARTBEAT" /\ ModeName(m.custom_mode) # "None"
    THEN ModeName(m.custom_mode) ELSE fm

\* the vehicle sends a message: it is queued on the link's socket
VehicleSend(m) ==
    /\ drone
    /\ nmsgs < MaxMsgs
    /\ Len(channel) < MaxChan
    /\ channel' = Append(channel, m)
    /\ nmsgs' = nmsgs + 1
    /\ ackArrived' = (ackArrived \/ m.type = "COMMAND_ACK")
    /\ UNCHANGED <<drone, tracking, is_armed, flight_mode, current_status, pc, cmd,
                   max_retries, retry_delay, attempts, rej, timeouts, timer, sinceSend, tx, sent,
                   ret, cpc>>
    /\ UNCHANGED outsideNode

\* connect(): mavutil.mavlink_connection(...) creates the link object
ConnectOpen ==
    /\ cpc = "none"
    /\ drone' = TRUE
    /\ cpc' = "wait_heartbeat"
    /\ UNCHANGED <<tracking, is_armed, flight_mode, current_status, channel, nmsgs,
                   pc, cmd, max_retries, retry_delay, attempts, rej, timeouts, timer,
                   sinceSend, tx, sent, ret, ackArrived>>
    /\ UNCHANGED outsideNode

\* connect(): wait_heartbeat() reads the link until a HEARTBEAT comes, then
\* request_data_streams() and start_status_tracking() run
ConnectWaitHeartbeat ==
    /\ cpc = "wait_heartbeat"
    /\ channel # <<>>
    /\ channel' = Tail(channel)
    /\ IF Head(channel).type = "HEARTBEAT"
       THEN tracking' = TRUE /\ cpc' = "connected"
       ELSE UNCHANGED <<tracking, cpc>>
    /\ UNCHANGED <<drone, is_armed, flight_mode, current_status, nmsgs, pc, cmd,
                   max_retries, retry_delay, attempts, rej, timeouts, timer, sinceSend, tx, sent,
                   ret, ackArrived>>
    /\ UNCHANGED outsideNode

\* _status_tracker: one iteration that received a message
TrackerRecv ==
    /\ tracking /\ drone
    /\ channel # <<>>
    /\ channel' = Tail(channel)
    /\ current_status' = ApplyStatus(current_status, Head(channel))
    /\ flight_mode' = ApplyFlightMode(flight_mode, Head(channel))
    /\ UNCHANGED <<drone, tracking, is_armed, nmsgs, pc, cmd, max_retries,
                   retry_delay, attempts, rej, timeouts, timer, sinceSend, tx, sent, ret, cpc, ackArrived>>
    /\ UNCHANGED outsideNode

\* a call is made on the lowest free caller thread (the threads are
\* interchangeable)
Free(c) == pc[c] = "idle" /\ \A d \in Callers : d < c => pc[d] # "idle"

\* a command called while self.drone is None returns False at once
InvokeNoLink(c, k) ==
    /\ Free(c)
    /\ ~drone
    /\ cmd' = [cmd EXCEPT ![c] = k]
    /\ ret' = [ret EXCEPT ![c] = "False"]
    /\ pc' = [pc EXCEPT ![c] = "done"]
    /\ UNCHANGED <<drone, tracking, is_armed, flight_mode, current_status, channel,
                   nmsgs, max_retries, retry_delay, attempts, rej, timeouts, timer, sinceSend,
                   tx, sent, cpc, ackArrived>>
    /\ UNCHANGED outsideNode

\* arm(): set_flight_mode(GUIDED) sends the mode change, then time.sleep(1)
ArmStart(c) ==
    /\ Free(c)
    /\ drone
    /\ cmd' = [cmd EXCEPT ![c] = "arm"]
    /\ flight_mode' = "GUIDED"
    /\ sent' = [sent EXCEPT ![c] = Append(@, "SET_MODE")]
    /\ pc' = [pc EXCEPT ![c] = "arm_sleep"]
    /\ timer' = [timer EXCEPT ![c] = 0]
    /\ ret' = [ret EXCEPT ![c] = "pending"]
    /\ UNCHANGED <<drone, tracking, is_armed, current_status, channel, nmsgs,
                   max_retries, retry_delay, attempts, rej, timeouts, sinceSend, tx, cpc,
                   ackArrived>>
    /\ UNCHANGED outsideNode

\* arm(): after the sleep the arm message is sent and the ack awaited
ArmSend(c) ==
    /\ pc[c] = "arm_sleep"
    /\ timer[c] >= ArmSettleSecs
    /\ tx' = [tx EXCEPT ![c] = @ + 1]
    /\ sent' = [sent EXCEPT ![c] = Append(@, "COMPONENT_ARM_DISARM")]
    /\ sinceSend' = [sinceSend EXCEPT ![c] = 0]
    /\ pc' = [pc EXCEPT ![c] = "arm_wait"]
    /\ timer' = [timer EXCEPT ![c] = 0]
    /\ UNCHANGED <<drone, tracking, is_armed, flight_mode, current_status, channel,
                   nmsgs, cmd, max_retries, retry_delay, attempts, rej, timeouts, ret,
                   cpc, ackArrived>>
    /\ UNCHANGED outsideNode

\* disarm(): the disarm message is sent and the ack awaited
DisarmStart(c) ==
    /\ Free(c)
    /\ drone
    /\ cmd' = [cmd EXCEPT ![c] = "disarm"]
    /\ tx' = [tx EXCEPT ![c] = @ + 1]
    /\ sent' = [sent EXCEPT ![c] = Append(@, "COMPONENT_ARM_DISARM")]
    /\ sinceSend' = [sinceSend EXCEPT ![c] = 0]
    /\ pc' = [pc EXCEPT ![c] = "disarm_wait"]
    /\ timer' = [timer EXCEPT ![c] = 0]
    /\ ret' = [ret EXCEPT ![c] = "pending"]
    /\ UNCHANGED <<drone, tracking, is_armed, flight_mode, current_status, channel,
                   nmsgs, max_retries, retry_delay, attempts, rej, timeouts, cpc, ackArrived>>
    /\ UNCHANGED outsideNode

\* land(max_retries=mr, retry_delay=rd): first pass of the while loop
LandStart(c, mr, rd) ==
    /\ Free(c)
    /\ drone
    /\ cmd' = [cmd EXCEPT ![c] = "land"]
    /\ max_retries' = [max_retries EXCEPT ![c] = mr]
    /\ retry_delay' = [retry_delay EXCEPT ![c] = rd]
    /\ attempts' = [attempts EXCEPT ![c] = 1]
    /\ tx' = [tx EXCEPT ![c] = @ + 1]
    /\ sent' = [sent EXCEPT ![c] = Append(@, "NAV_LAND")]
    /\ sinceSend' = [sinceSend EXCEPT ![c] = 0]
    /\ pc' = [pc EXCEPT ![c] = "land_wait"]
    /\ timer' = [timer EXCEPT ![c] = 0]
    /\ ret' = [ret EXCEPT ![c] = "pending"]
    /\ UNCHANGED <<drone, tracking, is_armed, flight_mode, current_status, channel,
                   nmsgs, rej, timeouts, cpc, ackArrived>>
    /\ UNCHANGED outsideNode

\* land(): after time.sleep(retry_delay) the loop sends the next attempt
LandRetry(c) ==
    /\ pc[c] = "land_sleep"
    /\ timer[c] >= retry_delay[c]
    /\ attempts' = [attempts EXCEPT ![c] = @ + 1]
    /\ tx' = [tx EXCEPT ![c] = @ + 1]
    /\ sent' = [sent EXCEPT ![c] = Append(@, "NAV_LAND")]
    /\ sinceSend' = [sinceSend EXCEPT ![c] = 0]
    /\ pc' = [pc EXCEPT ![c] = "land_wait"]
    /\ timer' = [timer EXCEPT ![c] = 0]
    /\ UNCHANGED <<drone, tracking, is_armed, flight_mode, current_status, channel,
                   nmsgs, cmd, max_retries, retry_delay, rej, timeouts, ret, cpc,
                   ackArrived>>
    /\ UNCHANGED outsideNode

\* the test without the comparison of the acknowledged command
AckVerdictAnyCommand(command, ack) ==
    IF ack # NoMsg
    THEN (IF ack.result = "ACCEPTED" THEN "accepted" ELSE "rejected")
    ELSE "noack"

\* the test every command applies to what recv_match returned:
\* "if ack and ack.command == <cmd>: success = (ack.result == ACCEPTED)"
AckVerdict(command, ack) ==
    IF ack # NoMsg /\ ack.command = command
    THEN (IF ack.result = "ACCEPTED" THEN "accepted" ELSE "rejected")
    ELSE "noack"

\* land's loop test after a failed attempt: "if attempts < max_retries"
MayRetryAlways(n, mr) == TRUE

MayRetry(n, mr) == n < mr

\* arm(), from the return of recv_match to the return of arm; takeoff, which
\* called arm, drops the value arm returned and goes on to its time.sleep(1);
\* fly_to_here, which called arm, returns False when arm did and goes on to
\* its time.sleep(1) otherwise
ArmResolve(c, ack) ==
    /\ pc[c] = "arm_wait"
    /\ is_armed' = (IF AckVerdict("ARM_DISARM", ack) = "accepted" THEN TRUE ELSE is_armed)
    /\ ret' = [ret EXCEPT ![c] =
                 IF AckVerdict("ARM_DISARM", ack) = "accepted" THEN "True" ELSE "False"]
    /\ rej' = [rej EXCEPT ![c] =
                 IF AckVerdict("ARM_DISARM", ack) = "rejected" THEN @ + 1 ELSE @]
    /\ timeouts' = [timeouts EXCEPT ![c] = IF ack = NoMsg THEN @ + 1 ELSE @]
    /\ pc' = [pc EXCEPT ![c] =
                IF cmd[c] = "takeoff" THEN "takeoff_sleep"
                ELSE IF cmd[c] = "fly_to_here" /\ AckVerdict("ARM_DISARM", ack) = "accepted"
                     THEN "here_arm_sleep"
                     ELSE "done"]
    /\ timer' = [timer EXCEPT ![c] = 0]
    /\ sinceSend' = [sinceSend EXCEPT ![c] = 0]
    /\ UNCHANGED <<attempts, retry_delay>>

\* disarm(), from the return of recv_match to the return of disarm
DisarmResolve(c, ack) ==
    /\ pc[c] = "disarm_wait"
    /\ is_armed' = (IF AckVerdict("ARM_DISARM", ack) = "accepted" THEN FALSE ELSE is_armed)
    /\ ret' = [ret EXCEPT ![c] =
                 IF AckVerdict("ARM_DISARM", ack) = "accepted" THEN "True" ELSE "False"]
    /\ rej' = [rej EXCEPT ![c] =
                 IF AckVerdict("ARM_DISARM", ack) = "rejected" THEN @ + 1 ELSE @]
    /\ timeouts' = [timeouts EXCEPT ![c] = IF ack = NoMsg THEN @ + 1 ELSE @]
    /\ pc' = [pc EXCEPT ![c] = "done"]
    /\ timer' = [timer EXCEPT ![c] = 0]
    /\ sinceSend' = [sinceSend EXCEPT ![c] = 0]
    /\ UNCHANGED <<attempts, retry_delay>>

\* land(), from the return of recv_match to the sleep before the next attempt
\* or to the return of land
LandResolve(c, ack) ==
    /\ pc[c] = "land_wait"
    /\ rej' = [rej EXCEPT ![c] =
                 IF AckVerdict("NAV_LAND", ack) = "rejected" THEN @ + 1 ELSE @]
    /\ timeouts' = [timeouts EXCEPT ![c] = IF ack = NoMsg THEN @ + 1 ELSE @]
    /\ IF AckVerdict("NAV_LAND", ack) = "accepted"
       THEN /\ ret' = [ret EXCEPT ![c] = "True"]
            /\ pc' = [pc EXCEPT ![c] = "done"]
            /\ sinceSend' = [sinceSend EXCEPT ![c] = 0]
            /\ retry_delay' = [retry_delay EXCEPT ![c] = 0]
       ELSE IF MayRetry(attempts[c], max_retries[c])
            THEN /\ pc' = [pc EXCEPT ![c] = "land_sleep"]
                 /\ UNCHANGED <<ret, sinceSend, retry_delay>>
            ELSE /\ ret' = [ret EXCEPT ![c] = "False"]
                 /\ pc' = [pc EXCEPT ![c] = "done"]
                 /\ sinceSend' = [sinceSend EXCEPT ![c] = 0]
                 /\ retry_delay' = [retry_delay EXCEPT ![c] = 0]
    /\ timer' = [timer EXCEPT ![c] = 0]
    /\ UNCHANGED <<is_armed, attempts>>

\* takeoff() that sends its message once more after an attempt without an
\* accepted ack
TakeoffResolveRetry(c, ack) ==
    /\ pc[c] = "takeoff_wait"
    /\ rej' = [rej EXCEPT ![c] =
                 IF AckVerdict("NAV_TAKEOFF", ack) = "rejected" THEN @ + 1 ELSE @]
    /\ timeouts' = [timeouts EXCEPT ![c] = IF ack = NoMsg THEN @ + 1 ELSE @]
    /\ IF AckVerdict("NAV_TAKEOFF", ack) # "accepted" /\ tx[c] <= 2
       THEN /\ pc' = [pc EXCEPT ![c] = "takeoff_sleep"]
            /\ UNCHANGED <<ret, sinceSend>>
       ELSE /\ ret' = [ret EXCEPT ![c] =
                        IF AckVerdict("NAV_TAKEOFF", ack) = "accepted"
                        THEN "True" ELSE "None"]
            /\ pc' = [pc EXCEPT ![c] = "done"]
            /\ sinceSend' = [sinceSend EXCEPT ![c] = 0]
    /\ timer' = [timer EXCEPT ![c] = 0]
    /\ UNCHANGED <<is_armed, attempts, retry_delay>>

\* takeoff(), from the return of recv_match to the return of takeoff: True
\* on an accepted NAV_TAKEOFF ack; otherwise the function ends without a
\* return statement and the caller gets None
TakeoffResolve(c, ack) ==
    /\ pc[c] = "takeoff_wait"
    /\ ret' = [ret EXCEPT ![c] =
                 IF AckVerdict("NAV_TAKEOFF", ack) = "accepted" THEN "True" ELSE "None"]
    /\ rej' = [rej EXCEPT ![c] =
                 IF AckVerdict("NAV_TAKEOFF", ack) = "rejected" THEN @ + 1 ELSE @]
    /\ timeouts' = [timeouts EXCEPT ![c] = IF ack = NoMsg THEN @ + 1 ELSE @]
    /\ pc' = [pc EXCEPT ![c] = "done"]
    /\ timer' = [timer EXCEPT ![c] = 0]
    /\ sinceSend' = [sinceSend EXCEPT ![c] = 0]
    /\ UNCHANGED <<is_armed, attempts, retry_delay>>

Resolve(c, ack) ==
    \/ ArmResolve(c, ack)
    \/ DisarmResolve(c, ack)
    \/ LandResolve(c, ack)
    \/ TakeoffResolve(c, ack)

WaitPcs == {"arm_wait", "disarm_wait", "land_wait", "takeoff_wait"}

\* recv_match(timeout=1.0): "if start_time + timeout < time.time(): return None"
AckWaitExpired(elapsed) == elapsed > RecvTimeoutSecs

\* recv_match(type='COMMAND_ACK') reads a COMMAND_ACK and returns it
RecvAck(c) ==
    /\ pc[c] \in WaitPcs
    /\ ~AckWaitExpired(timer[c])
    /\ channel # <<>>
    /\ Head(channel).type = "COMMAND_ACK"
    /\ channel' = Tail(channel)
    /\ Resolve(c, Head(channel))
    /\ UNCHANGED <<drone, tracking, flight_mode, current_status, nmsgs, cmd,
                   max_retries, tx, sent, cpc, ackArrived>>
    /\ UNCHANGED outsideNode

\* recv_match(type='COMMAND_ACK') reads a message of another type and goes on
RecvSkip(c) ==
    /\ pc[c] \in WaitPcs
    /\ ~AckWaitExpired(timer[c])
    /\ channel # <<>>
    /\ Head(channel).type # "COMMAND_ACK"
    /\ channel' = Tail(channel)
    /\ UNCHANGED <<drone, tracking, is_armed, flight_mode, current_status, nmsgs,
                   pc, cmd, max_retries, retry_delay, attempts, rej, timeouts, timer,
                   sinceSend, tx, sent, ret, cpc, ackArrived>>
    /\ UNCHANGED outsideNode

\* recv_match(type='COMMAND_ACK', timeout=1.0) returns None
RecvExpire(c) ==
    /\ pc[c] \in WaitPcs
    /\ AckWaitExpired(timer[c])
    /\ Resolve(c, NoMsg)
    /\ UNCHANGED <<drone, tracking, flight_mode, current_status, channel, nmsgs,
                   cmd, max_retries, tx, sent, cpc, ackArrived>>
    /\ UNCHANGED outsideNode

\* elapsed times saturate: past the longest wait or sleep they all act alike
MaxElapsed == RecvTimeoutSecs + 1

Elapse(n) == IF n < MaxElapsed THEN n + 1 ELSE MaxElapsed

\* one time unit passes for every thread that waits or sleeps
NodeTick ==
    /\ \E c \in Callers : pc[c] \notin {"idle", "done"}
    /\ timer' = [c \in Callers |->
                    IF pc[c] \in {"idle", "done"} THEN timer[c] ELSE Elapse(timer[c])]
    /\ sinceSend' = [c \in Callers |->
                    IF pc[c] \in {"idle", "done"} \/ tx[c] = 0
                    THEN sinceSend[c] ELSE Elapse(sinceSend[c])]
    /\ UNCHANGED <<drone, tracking, is_armed, flight_mode, current_status, channel,
                   nmsgs, pc, cmd, max_retries, retry_delay, attempts, rej, timeouts, tx, sent, ret,
                   cpc, ackArrived>>
    /\ UNCHANGED outsideNode

\* takeoff's argument, in metres
AltitudeChoices == {10, 20}

\* takeoff(target_altitude) without arm's part: the sleep before the takeoff
\* message starts at once
TakeoffStartNoArm(c, alt) ==
    /\ Free(c)
    /\ drone
    /\ cmd' = [cmd EXCEPT ![c] = "takeoff"]
    /\ target_altitude' = [target_altitude EXCEPT ![c] = alt]
    /\ pc' = [pc EXCEPT ![c] = "takeoff_sleep"]
    /\ timer' = [timer EXCEPT ![c] = 0]
    /\ ret' = [ret EXCEPT ![c] = "pending"]
    /\ UNCHANGED <<drone, tracking, is_armed, flight_mode, current_status, channel,
                   nmsgs, max_retries, retry_delay, attempts, rej, timeouts,
                   sinceSend, tx, sent, cpc, ackArrived, param>>
    /\ UNCHANGED outsideCall

\* takeoff(target_altitude): self.arm() is called first; its
\* set_flight_mode(GUIDED) sends the mode change, then time.sleep(1)
TakeoffStart(c, alt) ==
    /\ Free(c)
    /\ drone
    /\ cmd' = [cmd EXCEPT ![c] = "takeoff"]
    /\ target_altitude' = [target_altitude EXCEPT ![c] = alt]
    /\ flight_mode' = "GUIDED"
    /\ sent' = [sent EXCEPT ![c] = Append(@, "SET_MODE")]
    /\ pc' = [pc EXCEPT ![c] = "arm_sleep"]
    /\ timer' = [timer EXCEPT ![c] = 0]
    /\ ret' = [ret EXCEPT ![c] = "pending"]
    /\ UNCHANGED <<drone, tracking, is_armed, current_status, channel, nmsgs,
                   max_retries, retry_delay, attempts, rej, timeouts, sinceSend, tx, cpc,
                   ackArrived, param>>
    /\ UNCHANGED outsideCall

\* takeoff(): after arm has returned and time.sleep(1), the takeoff message
\* is sent with param7 = target_altitude and the ack awaited
TakeoffSend(c) ==
    /\ pc[c] = "takeoff_sleep"
    /\ timer[c] >= TakeoffSettleSecs
    /\ tx' = [tx EXCEPT ![c] = @ + 1]
    /\ sent' = [sent EXCEPT ![c] = Append(@, "NAV_TAKEOFF")]
    /\ param' = [param EXCEPT ![c] = target_altitude[c]]
    /\ sinceSend' = [sinceSend EXCEPT ![c] = 0]
    /\ pc' = [pc EXCEPT ![c] = "takeoff_wait"]
    /\ timer' = [timer EXCEPT ![c] = 0]
    /\ UNCHANGED <<drone, tracking, is_armed, flight_mode, current_status, channel,
                   nmsgs, cmd, max_retries, retry_delay, attempts, rej, timeouts, ret,
                   cpc, ackArrived, target_altitude>>
    /\ UNCHANGED outsideCall

\* fly_to_target(): the position target is sent (self.drone.target_system
\* raises AttributeError when there is no link), then time.sleep(0.5), which
\* is shorter than one time unit
FlyToTargetStart(c) ==
    /\ Free(c)
    /\ cmd' = [cmd EXCEPT ![c] = "fly_to_target"]
    /\ IF ~drone
       THEN /\ ret' = [ret EXCEPT ![c] = "raise"]
            /\ pc' = [pc EXCEPT ![c] = "done"]
            /\ UNCHANGED <<tx, sent, sinceSend, timer>>
       ELSE /\ tx' = [tx EXCEPT ![c] = @ + 1]
            /\ sent' = [sent EXCEPT ![c] = Append(@, "SET_POSITION_TARGET_GLOBAL_INT")]
            /\ sinceSend' = [sinceSend EXCEPT ![c] = 0]
            /\ pc' = [pc EXCEPT ![c] = "goto_settle"]
            /\ timer' = [timer EXCEPT ![c] = 0]
            /\ ret' = [ret EXCEPT ![c] = "pending"]
    /\ UNCHANGED <<drone, tracking, is_armed, flight_mode, current_status, channel,
                   nmsgs, max_retries, retry_delay, attempts, rej, timeouts, cpc,
                   ackArrived>>
    /\ UNCHANGED outsideNode

\* get_current_mode(), called by fly_to_target: the heartbeat request is sent
\* and recv_match(type='HEARTBEAT', timeout=1.0) starts
GotoModeRequest(c) ==
    /\ pc[c] = "goto_settle"
    /\ sent' = [sent EXCEPT ![c] = Append(@, "REQUEST_MESSAGE")]
    /\ pc' = [pc EXCEPT ![c] = "goto_wait"]
    /\ timer' = [timer EXCEPT ![c] = 0]
    /\ UNCHANGED <<drone, tracking, is_armed, flight_mode, current_status, channel,
                   nmsgs, cmd, max_retries, retry_delay, attempts, rej, timeouts,
                   sinceSend, tx, ret, cpc, ackArrived>>
    /\ UNCHANGED outsideNode

\* fly_to_target(), from the mode get_current_mode returned to its end:
\* "success" is assigned only when the mode is GUIDED, so "if success:"
\* raises UnboundLocalError for any other mode
GotoOutcome(current_mode) == IF current_mode = "GUIDED" THEN "True" ELSE "raise"

\* get_current_mode() reads a HEARTBEAT: self.flight_mode is set from it when
\* its mode has a name, and the mode known then is returned
GotoRecvHeartbeat(c) ==
    /\ pc[c] = "goto_wait"
    /\ ~AckWaitExpired(timer[c])
    /\ channel # <<>>
    /\ Head(channel).type = "HEARTBEAT"
    /\ channel' = Tail(channel)
    /\ flight_mode' = ApplyFlightMode(flight_mode, Head(channel))
    /\ ret' = [ret EXCEPT ![c] = GotoOutcome(flight_mode')]
    /\ pc' = [pc EXCEPT ![c] = "done"]
    /\ timer' = [timer EXCEPT ![c] = 0]
    /\ sinceSend' = [sinceSend EXCEPT ![c] = 0]
    /\ UNCHANGED <<drone, tracking, is_armed, current_status, nmsgs, cmd,
                   max_retries, retry_delay, attempts, rej, timeouts, tx, sent, cpc,
                   ackArrived>>
    /\ UNCHANGED outsideNode

\* get_current_mode()'s recv_match reads a message of another type and goes on
GotoRecvSkip(c) ==
    /\ pc[c] = "goto_wait"
    /\ ~AckWaitExpired(timer[c])
    /\ channel # <<>>
    /\ Head(channel).type # "HEARTBEAT"
    /\ channel' = Tail(channel)
    /\ UNCHANGED <<drone, tracking, is_armed, flight_mode, current_status, nmsgs,
                   pc, cmd, max_retries, retry_delay, attempts, rej, timeouts, timer,
                   sinceSend, tx, sent, ret, cpc, ackArrived>>
    /\ UNCHANGED outsideNode

\* get_current_mode()'s recv_match returns None: the last known mode is
\* returned
GotoRecvExpire(c) ==
    /\ pc[c] = "goto_wait"
    /\ AckWaitExpired(timer[c])
    /\ ret' = [ret EXCEPT ![c] = GotoOutcome(flight_mode)]
    /\ pc' = [pc EXCEPT ![c] = "done"]
    /\ timer' = [timer EXCEPT ![c] = 0]
    /\ sinceSend' = [sinceSend EXCEPT ![c] = 0]
    /\ UNCHANGED <<drone, tracking, is_armed, flight_mode, current_status, channel,
                   nmsgs, cmd, max_retries, retry_delay, attempts, rej, timeouts, tx,
                   sent, cpc, ackArrived>>
    /\ UNCHANGED outsideNode

\* set_throttle's argument: a percentage, and a value out of range
ThrottleChoices == {50, 101}

\* set_throttle's argument: the ends of the range, the values next to them
\* and a value inside
ThrottleValues == {-1, 0, 1, 50, 99, 100, 101}

\* set_throttle: pwm = 1000 + (throttle_value * 10)
ThrottlePwmUnscaled(throttle_value) == 1000 + throttle_value

ThrottlePwm(throttle_value) == 1000 + (throttle_value * 10)

\* set_throttle(throttle_value): without a link or with is_armed unset it
\* returns False; a value in 0..100 is sent as an RC override, any other fails
SetThrottle(c, throttle_value) ==
    /\ Free(c)
    /\ cmd' = [cmd EXCEPT ![c] = "set_throttle"]
    /\ pc' = [pc EXCEPT ![c] = "done"]
    /\ IF ~drone \/ ~is_armed
       THEN ret' = [ret EXCEPT ![c] = "False"] /\ UNCHANGED <<sent, param>>
       ELSE IF 0 <= throttle_value /\ throttle_value <= 100
            THEN /\ sent' = [sent EXCEPT ![c] = Append(@, "RC_CHANNELS_OVERRIDE")]
                 /\ param' = [param EXCEPT ![c] = ThrottlePwm(throttle_value)]
                 /\ ret' = [ret EXCEPT ![c] = "True"]
            ELSE ret' = [ret EXCEPT ![c] = "False"] /\ UNCHANGED <<sent, param>>
    /\ UNCHANGED <<drone, tracking, is_armed, flight_mode, current_status, channel,
                   nmsgs, max_retries, retry_delay, attempts, rej, timeouts, timer,
                   sinceSend, tx, cpc, ackArrived, target_altitude>>
    /\ UNCHANGED outsideCall

\* dict update: the keys of over replace or extend those of base
Overlay(base, over) == over @@ base

\* mode_display of get_drone_status
ModeDisplay(fm) == IF fm = "None" THEN "Unknown" ELSE fm

\* get_drone_status without the copy of self.current_status
get_drone_status_basic(link, armedFlag, fm, status) ==
    IF ~link THEN [connected |-> FALSE]
    ELSE [connected |-> TRUE, armed |-> armedFlag, mode |-> ModeDisplay(fm),
          altitude |-> 0]

\* get_drone_status: the dictionary returned for a node whose link, is_armed,
\* flight_mode and current_status are given (self.altitude is 0 until a
\* takeoff is accepted, and current_status['altitude'] replaces it)
get_drone_status(link, armedFlag, fm, status) ==
    IF ~link THEN [connected |-> FALSE]
    ELSE Overlay([connected |-> TRUE, armed |-> armedFlag, mode |-> ModeDisplay(fm),
                  altitude |-> 0],
                 status)

\* land's arguments: max_retries 3 (the default) and a single attempt;
\* retry_delay 2, the default, which no call in the repository overrides
RetryChoices == {1, 3}
DelayChoices == {2}

InitNode ==
    /\ drone = FALSE
    /\ tracking = FALSE
    /\ is_armed = FALSE
    /\ flight_mode = "None"
    /\ current_status = [armed |-> FALSE, mode |-> "None", altitude |-> 0]
    /\ channel = <<>>
    /\ nmsgs = 0
    /\ pc = [c \in Callers |-> "idle"]
    /\ cmd = [c \in Callers |-> "none"]
    /\ max_retries = [c \in Callers |-> 0]
    /\ retry_delay = [c \in Callers |-> 0]
    /\ attempts = [c \in Callers |-> 0]
    /\ rej = [c \in Callers |-> 0]
    /\ timeouts = [c \in Callers |-> 0]
    /\ timer = [c \in Callers |-> 0]
    /\ sinceSend = [c \in Callers |-> 0]
    /\ tx = [c \in Callers |-> 0]
    /\ sent = [c \in Callers |-> <<>>]
    /\ ret = [c \in Callers |-> "none"]
    /\ cpc = "none"
    /\ ackArrived = FALSE
    /\ target_altitude = [c \in Callers |-> 0]
    /\ param = [c \in Callers |-> 0]
    /\ tracker_thread = "None"
    /\ closed = FALSE

NextNode ==
    \/ \E m \in VehicleMsgs : VehicleSend(m)
    \/ ConnectOpen
    \/ ConnectWaitHeartbeat
    \/ TrackerRecv
    \/ \E c \in Callers, k \in {"arm", "disarm", "land"} : InvokeNoLink(c, k)
    \/ \E c \in Callers : ArmStart(c)
    \/ \E c \in Callers : ArmSend(c)
    \/ \E c \in Callers : DisarmStart(c)
    \/ \E c \in Callers, mr \in RetryChoices, rd \in DelayChoices : LandStart(c, mr, rd)
    \/ \E c \in Callers : LandRetry(c)
    \/ \E c \in Callers : RecvAck(c)
    \/ \E c \in Callers : RecvSkip(c)
    \/ \E c \in Callers : RecvExpire(c)
    \/ \E c \in Callers, v \in ThrottleChoices : SetThrottle(c, v)
    \/ NodeTick

\* a call is made when the calls before it have returned
InTurn(c) == \A d \in Callers : d < c => pc[d] = "done"

\* DroneNode with the calls arm, disarm, takeoff, fly_to_target and
\* set_throttle, made one after the other while the vehicle, connect() and
\* the status tracker run beside them (calls that overlap are SpecNode's)
NextFlight ==
    \/ \E m \in FlightMsgs : VehicleSend(m)
    \/ ConnectOpen
    \/ ConnectWaitHeartbeat
    \/ TrackerRecv
    \/ \E c \in Callers, k \in {"arm", "disarm", "takeoff"} : InTurn(c) /\ InvokeNoLink(c, k)
    \/ \E c \in Callers : InTurn(c) /\ ArmStart(c)
    \/ \E c \in Callers : ArmSend(c)
    \/ \E c \in Callers : InTurn(c) /\ DisarmStart(c)
    \/ \E c \in Callers, alt \in AltitudeChoices : InTurn(c) /\ TakeoffStart(c, alt)
    \/ \E c \in Callers : TakeoffSend(c)
    \/ \E c \in Callers : InTurn(c) /\ FlyToTargetStart(c)
    \/ \E c \in Callers : GotoModeRequest(c)
    \/ \E c \in Callers : GotoRecvHeartbeat(c)
    \/ \E c \in Callers : GotoRecvSkip(c)
    \/ \E c \in Callers : GotoRecvExpire(c)
    \/ \E c \in Callers : RecvAck(c)
    \/ \E c \in Callers : RecvSkip(c)
    \/ \E c \in Callers : RecvExpire(c)
    \/ \E c \in Callers, v \in ThrottleValues : InTurn(c) /\ SetThrottle(c, v)
    \/ NodeTick

\* the flight modes set_flight_mode is called with
ModeChoices == {"GUIDED", "STABILIZE"}

\* set_flight_mode(mode): without a link it returns False; self.drone.set_mode
\* sends the mode change and self.flight_mode is assigned, or set_mode raises
\* and the except clause returns False
SetFlightMode(c, mode, raises) ==
    /\ Free(c)
    /\ cmd' = [cmd EXCEPT ![c] = "set_flight_mode"]
    /\ pc' = [pc EXCEPT ![c] = "done"]
    /\ IF ~drone \/ raises
       THEN ret' = [ret EXCEPT ![c] = "False"] /\ UNCHANGED <<sent, flight_mode>>
       ELSE /\ sent' = [sent EXCEPT ![c] = Append(@, "SET_MODE")]
            /\ flight_mode' = mode
            /\ ret' = [ret EXCEPT ![c] = "True"]
    /\ UNCHANGED <<drone, tracking, is_armed, current_status, channel, nmsgs,
                   max_retries, retry_delay, attempts, rej, timeouts, timer,
                   sinceSend, tx, cpc, ackArrived>>
    /\ UNCHANGED outsideNode

\* max_retries of fly_to_here and of land: the default of both, which no call
\* in the repository overrides
DefaultRetries == 3

\* fly_to_here(max_retries=mr): without a link it returns False; else
\* get_drone_status() is called, which calls get_current_mode() when
\* self.flight_mode is unset: the heartbeat request is sent and
\* recv_match(type='HEARTBEAT', timeout=1.0) starts
FlyToHereStart(c, mr) ==
    /\ Free(c)
    /\ cmd' = [cmd EXCEPT ![c] = "fly_to_here"]
    /\ IF ~drone
       THEN /\ ret' = [ret EXCEPT ![c] = "False"]
            /\ pc' = [pc EXCEPT ![c] = "done"]
            /\ UNCHANGED <<max_retries, sent, timer>>
       ELSE /\ ret' = [ret EXCEPT ![c] = "pending"]
            /\ max_retries' = [max_retries EXCEPT ![c] = mr]
            /\ timer' = [timer EXCEPT ![c] = 0]
            /\ IF flight_mode = "None"
               THEN /\ sent' = [sent EXCEPT ![c] = Append(@, "REQUEST_MESSAGE")]
                    /\ pc' = [pc EXCEPT ![c] = "here_status_wait"]
               ELSE /\ pc' = [pc EXCEPT ![c] = "here_status"]
                    /\ UNCHANGED sent
    /\ UNCHANGED <<drone, tracking, is_armed, flight_mode, current_status, channel,
                   nmsgs, retry_delay, attempts, rej, timeouts, sinceSend, tx, cpc,
                   ackArrived>>
    /\ UNCHANGED outsideNode

\* fly_to_here(), from the mode get_current_mode returned: in
\* get_drone_status the mode is dropped; in the loop "success" is set when it
\* is GUIDED, else time.sleep(1) comes before the next attempt "if not
\* success and attempts < max_retries", else False is returned
HereAfterMode(c, current_mode) ==
    /\ timer' = [timer EXCEPT ![c] = 0]
    /\ IF pc[c] = "here_status_wait"
       THEN pc' = [pc EXCEPT ![c] = "here_status"] /\ UNCHANGED ret
       ELSE IF current_mode = "GUIDED"
            THEN /\ ret' = [ret EXCEPT ![c] = "True"]
                 /\ pc' = [pc EXCEPT ![c] = "done"]
            ELSE IF MayRetry(attempts[c], max_retries[c])
                 THEN pc' = [pc EXCEPT ![c] = "here_retry_sleep"] /\ UNCHANGED ret
                 ELSE /\ ret' = [ret EXCEPT ![c] = "False"]
                      /\ pc' = [pc EXCEPT ![c] = "done"]

HereWaitPcs == {"here_status_wait", "here_wait"}

\* get_current_mode(), called by fly_to_here, reads a HEARTBEAT
HereRecvHeartbeat(c) ==
    /\ pc[c] \in HereWaitPcs
    /\ ~AckWaitExpired(timer[c])
    /\ channel # <<>>
    /\ Head(channel).type = "HEARTBEAT"
    /\ channel' = Tail(channel)
    /\ flight_mode' = ApplyFlightMode(flight_mode, Head(channel))
    /\ HereAfterMode(c, flight_mode')
    /\ UNCHANGED <<drone, tracking, is_armed, current_status, nmsgs, cmd,
                   max_retries, retry_delay, attempts, rej, timeouts, sinceSend, tx,
                   sent, cpc, ackArrived>>
    /\ UNCHANGED outsideNode

\* its recv_match reads a message of another type and goes on
HereRecvSkip(c) ==
    /\ pc[c] \in HereWaitPcs
    /\ ~AckWaitExpired(timer[c])
    /\ channel # <<>>
    /\ Head(channel).type # "HEARTBEAT"
    /\ channel' = Tail(channel)
    /\ UNCHANGED <<drone, tracking, is_armed, flight_mode, current_status, nmsgs,
                   pc, cmd, max_retries, retry_delay, attempts, rej, timeouts, timer,
                   sinceSend, tx, sent, ret, cpc, ackArrived>>
    /\ UNCHANGED outsideNode

\* its recv_match returns None: the last known mode is returned
HereRecvExpire(c) ==
    /\ pc[c] \in HereWaitPcs
    /\ AckWaitExpired(timer[c])
    /\ HereAfterMode(c, flight_mode)
    /\ UNCHANGED <<drone, tracking, is_armed, flight_mode, current_status, channel,
                   nmsgs, cmd, max_retries, retry_delay, attempts, rej, timeouts,
                   sinceSend, tx, sent, cpc, ackArrived>>
    /\ UNCHANGED outsideNode

\* fly_to_here(): False is returned when the status has no position or no
\* heading (located: whether the tracker has stored both) and when
\* set_flight_mode(GUIDED) fails; else the mode change is sent and
\* time.sleep(1) starts
FlyToHereSetMode(c, located, raises) ==
    /\ pc[c] = "here_status"
    /\ IF ~located \/ raises
       THEN /\ ret' = [ret EXCEPT ![c] = "False"]
            /\ pc' = [pc EXCEPT ![c] = "done"]
            /\ UNCHANGED <<sent, flight_mode>>
       ELSE /\ flight_mode' = "GUIDED"
            /\ sent' = [sent EXCEPT ![c] = Append(@, "SET_MODE")]
            /\ pc' = [pc EXCEPT ![c] = "here_mode_sleep"]
            /\ UNCHANGED ret
    /\ timer' = [timer EXCEPT ![c] = 0]
    /\ UNCHANGED <<drone, tracking, is_armed, current_status, channel, nmsgs, cmd,
                   max_retries, retry_delay, attempts, rej, timeouts, sinceSend, tx,
                   cpc, ackArrived>>
    /\ UNCHANGED outsideNode

\* fly_to_here() that goes on to the position target without arming
FlyToHereArmSkipped(c) ==
    /\ pc[c] = "here_mode_sleep"
    /\ timer[c] >= ArmSettleSecs
    /\ pc' = [pc EXCEPT ![c] = "here_send"]
    /\ timer' = [timer EXCEPT ![c] = 0]
    /\ UNCHANGED <<drone, tracking, is_armed, flight_mode, current_status, channel,
                   nmsgs, cmd, max_retries, retry_delay, attempts, rej, timeouts,
                   sinceSend, tx, sent, ret, cpc, ackArrived>>
    /\ UNCHANGED outsideNode

\* fly_to_here(), after time.sleep(1): "if not self.is_armed" it calls arm(),
\* whose set_flight_mode(GUIDED) sends the mode change before time.sleep(1)
FlyToHereArm(c) ==
    /\ pc[c] = "here_mode_sleep"
    /\ timer[c] >= ArmSettleSecs
    /\ IF is_armed
       THEN /\ pc' = [pc EXCEPT ![c] = "here_send"]
            /\ UNCHANGED <<flight_mode, sent>>
       ELSE /\ flight_mode' = "GUIDED"
            /\ sent' = [sent EXCEPT ![c] = Append(@, "SET_MODE")]
            /\ pc' = [pc EXCEPT ![c] = "arm_sleep"]
    /\ timer' = [timer EXCEPT ![c] = 0]
    /\ UNCHANGED <<drone, tracking, is_armed, current_status, channel, nmsgs, cmd,
                   max_retries, retry_delay, attempts, rej, timeouts, sinceSend, tx,
                   ret, cpc, ackArrived>>
    /\ UNCHANGED outsideNode

\* the places of fly_to_here from which the next pass of its loop starts, and
\* the sleep that has to end first
HereSendReady(p, elapsed) ==
    \/ p = "here_send"
    \/ p \in {"here_arm_sleep", "here_retry_sleep"} /\ elapsed >= ArmSettleSecs

\* fly_to_here(): one pass of the loop up to get_current_mode's recv_match:
\* the position target is sent and, after time.sleep(0.5), which is shorter
\* than one time unit, the heartbeat request
FlyToHereSend(c) ==
    /\ HereSendReady(pc[c], timer[c])
    /\ attempts' = [attempts EXCEPT ![c] = @ + 1]
    /\ tx' = [tx EXCEPT ![c] = @ + 1]
    /\ sent' = [sent EXCEPT ![c] =
                  Append(Append(@, "SET_POSITION_TARGET_GLOBAL_INT"), "REQUEST_MESSAGE")]
    /\ sinceSend' = [sinceSend EXCEPT ![c] = 0]
    /\ pc' = [pc EXCEPT ![c] = "here_wait"]
    /\ timer' = [timer EXCEPT ![c] = 0]
    /\ UNCHANGED <<drone, tracking, is_armed, flight_mode, current_status, channel,
                   nmsgs, cmd, max_retries, retry_delay, rej, timeouts, ret, cpc,
                   ackArrived>>
    /\ UNCHANGED outsideNode

\* what the vehicle may send while all commands are called: heartbeats in
\* both modes, both answers to an arm or disarm request and an accepted ack of
\* another command
MissionMsgs ==
    Heartbeats \cup {CommandAck("ARM_DISARM", "ACCEPTED"), CommandAck("ARM_DISARM", "DENIED"),
                     CommandAck("NAV_TAKEOFF", "ACCEPTED")}

\* DroneNode with all its commands, made one after the other while the
\* vehicle, connect() and the status tracker run beside them
NextMission ==
    \/ \E m \in MissionMsgs : VehicleSend(m)
    \/ ConnectOpen
    \/ ConnectWaitHeartbeat
    \/ TrackerRecv
    \/ \E c \in Callers, k \in {"arm", "disarm", "takeoff", "land"} :
          InTurn(c) /\ InvokeNoLink(c, k)
    \/ \E c \in Callers : InTurn(c) /\ ArmStart(c)
    \/ \E c \in Callers : ArmSend(c)
    \/ \E c \in Callers : InTurn(c) /\ DisarmStart(c)
    \/ \E c \in Callers, alt \in AltitudeChoices : InTurn(c) /\ TakeoffStart(c, alt)
    \/ \E c \in Callers : TakeoffSend(c)
    \/ \E c \in Callers, rd \in DelayChoices :
          InTurn(c) /\ LandStart(c, DefaultRetries, rd)
    \/ \E c \in Callers : LandRetry(c)
    \/ \E c \in Callers : RecvAck(c)
    \/ \E c \in Callers : RecvSkip(c)
    \/ \E c \in Callers : RecvExpire(c)
    \/ \E c \in Callers : InTurn(c) /\ FlyToTargetStart(c)
    \/ \E c \in Callers : GotoModeRequest(c)
    \/ \E c \in Callers : GotoRecvHeartbeat(c)
    \/ \E c \in Callers : GotoRecvSkip(c)
    \/ \E c \in Callers : GotoRecvExpire(c)
    \/ \E c \in Callers, mode \in ModeChoices, raises \in BOOLEAN :
          InTurn(c) /\ SetFlightMode(c, mode, raises)
    \/ \E c \in Callers, v \in ThrottleChoices : InTurn(c) /\ SetThrottle(c, v)
    \/ \E c \in Callers : InTurn(c) /\ FlyToHereStart(c, DefaultRetries)
    \/ \E c \in Callers : HereRecvHeartbeat(c)
    \/ \E c \in Callers : HereRecvSkip(c)
    \/ \E c \in Callers : HereRecvExpire(c)
    \/ \E c \in Callers, located \in BOOLEAN, raises \in BOOLEAN :
          FlyToHereSetMode(c, located, raises)
    \/ \E c \in Callers : FlyToHereArm(c)
    \/ \E c \in Callers : FlyToHereSend(c)
    \/ NodeTick

\* stop_monitoring() joins the monitor thread, the only caller of connect(),
\* before it calls cleanup(): connect() runs only while no cleanup was called
NotStopped == \A c \in Callers : pc[c] = "idle"

\* connect(): wait_heartbeat() reads the link until a HEARTBEAT comes, then
\* start_status_tracking() sets self.tracking and starts the tracker thread
ConnectStartTracking ==
    /\ cpc = "wait_heartbeat"
    /\ channel # <<>>
    /\ channel' = Tail(channel)
    /\ IF Head(channel).type = "HEARTBEAT"
       THEN tracking' = TRUE /\ tracker_thread' = "top" /\ cpc' = "connected"
       ELSE UNCHANGED <<tracking, tracker_thread, cpc>>
    /\ UNCHANGED <<drone, is_armed, flight_mode, current_status, nmsgs, pc, cmd,
                   max_retries, retry_delay, attempts, rej, timeouts, timer, sinceSend,
                   tx, sent, ret, ackArrived, closed>>
    /\ UNCHANGED outsideCleanup

\* connect(): wait_heartbeat() raises on a link error; connect returns False,
\* self.drone keeps the link object and no tracker is started
ConnectFails ==
    /\ cpc = "wait_heartbeat"
    /\ cpc' = "failed"
    /\ UNCHANGED <<drone, tracking, is_armed, flight_mode, current_status, channel,
                   nmsgs, pc, cmd, max_retries, retry_delay, attempts, rej, timeouts,
                   timer, sinceSend, tx, sent, ret, ackArrived>>
    /\ UNCHANGED <<cleanupVars, outsideCleanup>>

\* _status_tracker: "while self.tracking and self.drone", then recv_match is
\* entered or the thread ends
TrackerLoopTest ==
    /\ tracker_thread = "top"
    /\ tracker_thread' = IF tracking /\ drone THEN "recv" ELSE "ended"
    /\ UNCHANGED <<nodeVars, closed, outsideCleanup>>

\* _status_tracker: recv_match(blocking=True, timeout=1.0) reads a message
\* off the link and the message is applied
TrackerRead ==
    /\ tracker_thread = "recv"
    /\ channel # <<>>
    /\ channel' = Tail(channel)
    /\ current_status' = ApplyStatus(current_status, Head(channel))
    /\ flight_mode' = ApplyFlightMode(flight_mode, Head(channel))
    /\ tracker_thread' = "top"
    /\ UNCHANGED <<drone, tracking, is_armed, nmsgs, pc, cmd, max_retries,
                   retry_delay, attempts, rej, timeouts, timer, sinceSend, tx, sent,
                   ret, cpc, ackArrived, closed>>
    /\ UNCHANGED outsideCleanup

\* _status_tracker: recv_match returns None after its timeout
TrackerRecvNone ==
    /\ tracker_thread = "recv"
    /\ channel = <<>>
    /\ tracker_thread' = "top"
    /\ UNCHANGED <<nodeVars, closed, outsideCleanup>>

\* _status_tracker: an exception is raised inside the try block
TrackerRaises ==
    /\ tracker_thread = "recv"
    /\ tracker_thread' = "except"
    /\ UNCHANGED <<nodeVars, closed, outsideCleanup>>

\* _status_tracker: the except clause logs, time.sleep(1) ends and the loop
\* goes on
TrackerExceptSleep ==
    /\ tracker_thread = "except"
    /\ tracker_thread' = "top"
    /\ UNCHANGED <<nodeVars, closed, outsideCleanup>>

\* cleanup(): stop_status_tracking() sets self.tracking = False and goes on
\* to the join
CleanupStart(c) ==
    /\ Free(c)
    /\ cpc # "wait_heartbeat"
    /\ cmd' = [cmd EXCEPT ![c] = "cleanup"]
    /\ tracking' = FALSE
    /\ pc' = [pc EXCEPT ![c] = "cleanup_join"]
    /\ ret' = [ret EXCEPT ![c] = "pending"]
    /\ UNCHANGED <<drone, is_armed, flight_mode, current_status, channel, nmsgs,
                   max_retries, retry_delay, attempts, rej, timeouts, timer, sinceSend,
                   tx, sent, cpc, ackArrived>>
    /\ UNCHANGED <<cleanupVars, outsideCleanup>>

\* stop_status_tracking() that does not wait for the tracker thread
CleanupJoinNoWait(c) ==
    /\ pc[c] = "cleanup_join"
    /\ pc' = [pc EXCEPT ![c] = "cleanup_close"]
    /\ UNCHANGED <<drone, tracking, is_armed, flight_mode, current_status, channel,
                   nmsgs, cmd, max_retries, retry_delay, attempts, rej, timeouts,
                   timer, sinceSend, tx, sent, ret, cpc, ackArrived>>
    /\ UNCHANGED <<cleanupVars, outsideCleanup>>

\* stop_status_tracking(): "if self.tracker_thread: self.tracker_thread.join()"
\* returns once the thread has ended, or at once when there is none
CleanupJoin(c) ==
    /\ pc[c] = "cleanup_join"
    /\ tracker_thread \in {"None", "ended"}
    /\ pc' = [pc EXCEPT ![c] = "cleanup_close"]
    /\ UNCHANGED <<drone, tracking, is_armed, flight_mode, current_status, channel,
                   nmsgs, cmd, max_retries, retry_delay, attempts, rej, timeouts,
                   timer, sinceSend, tx, sent, ret, cpc, ackArrived>>
    /\ UNCHANGED <<cleanupVars, outsideCleanup>>

\* cleanup(): "if self.drone: self.drone.close()", then cleanup returns
CleanupClose(c) ==
    /\ pc[c] = "cleanup_close"
    /\ closed' = (closed \/ drone)
    /\ pc' = [pc EXCEPT ![c] = "done"]
    /\ ret' = [ret EXCEPT ![c] = "None"]
    /\ UNCHANGED <<drone, tracking, is_armed, flight_mode, current_status, channel,
                   nmsgs, cmd, max_retries, retry_delay, attempts, rej, timeouts,
                   timer, sinceSend, tx, sent, cpc, ackArrived, tracker_thread>>
    /\ UNCHANGED outsideCleanup

\* the steps of the tracker thread that need no failure
TrackerThread ==
    \/ TrackerLoopTest
    \/ TrackerRead
    \/ TrackerRecvNone
    \/ TrackerExceptSleep

\* the steps of a thread that has called cleanup()
CleanupThread == \E c \in Callers : CleanupJoin(c) \/ CleanupClose(c)

\* DroneNode as DroneMonitor drives it: connect(), the tracker thread it
\* starts, and cleanup() called once connect() is over
NextCleanup ==
    \/ \E m \in VehicleMsgs : VehicleSend(m)
    \/ NotStopped /\ ConnectOpen
    \/ NotStopped /\ ConnectStartTracking
    \/ NotStopped /\ ConnectFails
    \/ TrackerThread
    \/ TrackerRaises
    \/ \E c \in Callers : CleanupStart(c)
    \/ CleanupThread

---------------------------------------------------------------------------
(* Telemetry aggregation: one vehicle's message sequence as it is applied   *)
(* by MAVLinkServerThread (src/mav_server.py) and by DroneNode's           *)
(* _status_tracker (src/control.py).  Angles of the heading fields are    *)
(* kept in hundredths of a degree, so that hdg / 100.0 stays an integer;   *)
(* the other inputs are multiples of their divisors.                       *)

MaxTelemetry == 4

HEARTBEAT(base_mode, custom_mode, system_status) ==
    [type |-> "HEARTBEAT", base_mode |-> base_mode, custom_mode |-> custom_mode,
     system_status |-> system_status]
GLOBAL_POSITION_INT(lat, lon, alt, relative_alt, vx, vy, hdg) ==
    [type |-> "GLOBAL_POSITION_INT", lat |-> lat, lon |-> lon, alt |-> alt,
     relative_alt |-> relative_alt, vx |-> vx, vy |-> vy, hdg |-> hdg]
VFR_HUD(groundspeed, alt, heading) ==
    [type |-> "VFR_HUD", groundspeed |-> groundspeed, alt |-> alt, heading |-> heading]
GPS_RAW_INT(lat, lon, alt, fix_type, satellites_visible) ==
    [type |-> "GPS_RAW_INT", lat |-> lat, lon |-> lon, alt |-> alt,
     fix_type |-> fix_type, satellites_visible |-> satellites_visible]
SYS_STATUS(battery_remaining, voltage_battery, current_battery) ==
    [type |-> "SYS_STATUS", battery_remaining |-> battery_remaining,
     voltage_battery |-> voltage_battery, current_battery |-> current_battery]

\* the messages a vehicle may send: an armed GUIDED and a disarmed STABILIZE
\* heartbeat, a heartbeat whose status code and one whose mode number is in no
\* table, a battery report with the not-reported value -1, positions with
\* the raw headings 180 and 0, a position with a
\* valid heading and one with the unknown-heading value, and one message of
\* each other kind
TelemetryMsgs ==
    {HEARTBEAT(209, 4, 4), HEARTBEAT(81, 0, 3),
     HEARTBEAT(81, 0, 42), HEARTBEAT(209, 99, 4),
     GLOBAL_POSITION_INT(470000000, 80000000, 500000, 10000, 300, 400, 180),
     GLOBAL_POSITION_INT(470000000, 80000000, 500000, 10000, 300, 400, 0),
     SYS_STATUS(-1, 12000, -1),
     GLOBAL_POSITION_INT(470000000, 80000000, 500000, 10000, 300, 400, 9000),
     GLOBAL_POSITION_INT(480000000, 90000000, 510000, 20000, 0, 0, 65535),
     VFR_HUD(7, 30, 180),
     GPS_RAW_INT(460000000, 70000000, 600000, 3, 9),
     SYS_STATUS(80, 12000, 100)}

TelemetryKinds == {"HEARTBEAT", "GLOBAL_POSITION_INT", "VFR_HUD", "GPS_RAW_INT",
                   "SYS_STATUS"}

\* no message yet
NoTelemetry == [type |-> "None"]

\* Python's None, and a value held by a field that may be None
None == [none |-> TRUE]
Some(v) == [val |-> v]

\* (vx**2 + vy**2)**0.5
Hypot(vx, vy) == CHOOSE n \in 0..1000 : n * n = vx * vx + vy * vy

\* ---- MAVLinkServerThread ----

\* no DroneStatus is kept for the peer
Absent == [present |-> FALSE]

\* the telemetry fields of a DroneStatus built by _drone_connected
DroneStatusDefaults ==
    [present |-> TRUE, armed |-> FALSE, mode |-> "UNKNOWN", battery_percent |-> 0,
     battery_voltage |-> 0, battery_current |-> 0, gps_fix |-> 0,
     gps_satellites |-> 0, altitude |-> 0, latitude |-> 0, longitude |-> 0,
     groundspeed |-> 0, heading |-> 0, system_status |-> "UNKNOWN"]

_get_system_status_name(status_code) ==
    CASE status_code = 3 -> "STANDBY"
      [] status_code = 4 -> "ACTIVE"
      [] OTHER -> "UNKNOWN(code)"

\* mode_map.get(msg.custom_mode, f'MODE_{msg.custom_mode}')
mode_map(custom_mode) ==
    CASE custom_mode = 0 -> "STABILIZE"
      [] custom_mode = 4 -> "GUIDED"
      [] OTHER -> "MODE_n"

_parse_heartbeat(status, msg) ==
    [status EXCEPT !.armed = ArmedFlag(msg.base_mode),
                   !.system_status = _get_system_status_name(msg.system_status),
                   !.mode = mode_map(msg.custom_mode)]

_parse_sys_status(status, msg) ==
    [status EXCEPT !.battery_percent = msg.battery_remaining,
                   !.battery_voltage = msg.voltage_battery \div 1000,
                   !.battery_current = IF msg.current_battery # -1
                                       THEN msg.current_battery \div 100 ELSE 0]

_parse_gps(status, msg) ==
    [status EXCEPT !.latitude = msg.lat \div 10000000,
                   !.longitude = msg.lon \div 10000000,
                   !.altitude = msg.alt \div 1000,
                   !.gps_fix = msg.fix_type,
                   !.gps_satellites = msg.satellites_visible]

_parse_global_position(status, msg) ==
    [status EXCEPT !.latitude = msg.lat \div 10000000,
                   !.longitude = msg.lon \div 10000000,
                   !.altitude = msg.alt \div 1000,
                   !.groundspeed = Hypot(msg.vx, msg.vy) \div 100,
                   !.heading = msg.hdg]

_parse_vfr_hud(status, msg) ==
    [status EXCEPT !.groundspeed = msg.groundspeed,
                   !.altitude = msg.alt,
                   !.heading = msg.heading * 100]

\* _update_drone_status: the parser chosen by the message type
ParseTelemetry(status, msg) ==
    CASE msg.type = "HEARTBEAT" -> _parse_heartbeat(status, msg)
      [] msg.type = "SYS_STATUS" -> _parse_sys_status(status, msg)
      [] msg.type = "GPS_RAW_INT" -> _parse_gps(status, msg)
      [] msg.type = "GLOBAL_POSITION_INT" -> _parse_global_position(status, msg)
      [] msg.type = "VFR_HUD" -> _parse_vfr_hud(status, msg)
      [] OTHER -> status

\* _handle_packet: the first message of a peer only creates its DroneStatus,
\* every later one is parsed into it
HandleTelemetry(status, msg) ==
    IF ~status.present THEN DroneStatusDefaults ELSE ParseTelemetry(status, msg)

\* ---- DroneNode ----

\* self.current_status as __init__ leaves it
CurrentStatusDefaults ==
    [armed |-> FALSE, mode |-> "None", altitude |-> 0, battery |-> None,
     gps |-> None, heading |-> None, groundspeed |-> None, position |-> None,
     system_status |-> "None"]

\* the keys of dialect.enums['MAV_STATE']
MAV_STATE_codes == 0..8

\* dialect.enums['MAV_STATE'][msg.system_status].name, for the codes the
\* vehicles of the model send; a code that is no key raises KeyError
MAV_STATE(system_status) ==
    CASE system_status = 3 -> "MAV_STATE_STANDBY"
      [] system_status = 4 -> "MAV_STATE_ACTIVE"
      [] OTHER -> "MAV_STATE_other"

\* _status_tracker: the writes to self.current_status of one received message
StatusTrackerApply(status, msg) ==
    CASE msg.type = "HEARTBEAT" ->
            IF msg.system_status \notin MAV_STATE_codes
            THEN \* KeyError after the first write; the loop's except logs it
                 [status EXCEPT !.armed = ArmedFlag(msg.base_mode)]
            ELSE [status EXCEPT !.armed = ArmedFlag(msg.base_mode),
                                !.system_status = MAV_STATE(msg.system_status),
                                !.mode = IF ModeName(msg.custom_mode) # "None"
                                         THEN ModeName(msg.custom_mode) ELSE @]
      [] msg.type = "GLOBAL_POSITION_INT" ->
            [status EXCEPT !.altitude = msg.relative_alt \div 1000,
                           !.position = [lat |-> msg.lat \div 10000000,
                                         lon |-> msg.lon \div 10000000],
                           !.heading = IF msg.hdg # 0 /\ msg.hdg # 65535
                                       THEN Some(IF msg.hdg > 360 THEN msg.hdg
                                                 ELSE msg.hdg * 100)
                                       ELSE @]
      [] msg.type = "VFR_HUD" ->
            [status EXCEPT !.groundspeed = Some(msg.groundspeed),
                           !.heading = Some(msg.heading * 100)]
      [] msg.type = "GPS_RAW_INT" ->
            [status EXCEPT !.gps = [fix_type |-> msg.fix_type,
                                    satellites_visible |-> msg.satellites_visible]]
      [] msg.type = "SYS_STATUS" ->
            [status EXCEPT !.battery = [percentage |-> msg.battery_remaining,
                                        voltage |-> msg.voltage_battery]]
      [] OTHER -> status

\* connect() reads the link up to the first HEARTBEAT without applying
\* anything; the tracker it then starts applies every later message
NodeTelemetry(linked, status, msg) ==
    IF linked THEN StatusTrackerApply(status, msg) ELSE status

\* a message carries a heading unless it is a position with the
\* unknown-heading value
CarriesHeading(msg) ==
    \/ msg.type = "VFR_HUD"
    \/ msg.type = "GLOBAL_POSITION_INT" /\ msg.hdg # 65535

\* the vehicle sends msg; the server and the node each receive and handle it
ReceiveTelemetry(msg) ==
    /\ nrecv < MaxTelemetry
    /\ nrecv' = nrecv + 1
    /\ peer_status' = HandleTelemetry(peer_status, msg)
    /\ node_status' = NodeTelemetry(node_linked, node_status, msg)
    /\ node_linked' = (node_linked \/ msg.type = "HEARTBEAT")
    /\ lastOf' = [lastOf EXCEPT ![msg.type] = msg]
    /\ lastHdg' = IF CarriesHeading(msg) THEN msg ELSE lastHdg
    /\ lastRecv' = msg
    /\ UNCHANGED outsideTelemetry

InitTelemetry ==
    /\ peer_status = Absent
    /\ node_linked = FALSE
    /\ node_status = CurrentStatusDefaults
    /\ lastOf = [k \in TelemetryKinds |-> NoTelemetry]
    /\ lastHdg = NoTelemetry
    /\ lastRecv = NoTelemetry
    /\ nrecv = 0

NextTelemetry == \E msg \in TelemetryMsgs : ReceiveTelemetry(msg)

---------------------------------------------------------------------------
(* DroneMonitor (src/dashboard.py): one thread that visits every           *)
(* configured DroneNode in turn, connecting it or reading its status,      *)
(* while each connected node's tracker thread applies telemetry.           *)

MaxVehicleMsgs == 2
MaxWire == 2

\* the system ids of connection_strings, in the order the loop visits them
Vehicles == {1, 2}
LastVehicle == Cardinality(Vehicles)

\* the messages a vehicle sends to the monitor's nodes
MonitorMsgs ==
    {HEARTBEAT(209, 4, 4),
     GLOBAL_POSITION_INT(470000000, 80000000, 500000, 10000, 300, 400, 9000)}

\* a DroneNode as __init__ leaves it
NewDroneNode ==
    [drone |-> FALSE, closed |-> FALSE, tracking |-> FALSE, is_armed |-> FALSE,
     flight_mode |-> "None", current_status |-> CurrentStatusDefaults]

\* DroneStatus(system_id=...) of the dashboard, without the identity
DashboardStatusDefaults ==
    [connected |-> FALSE, armed |-> FALSE, mode |-> "UNKNOWN",
     battery_percentage |-> 0, battery_voltage |-> 0, gps_fix |-> 0,
     gps_satellites |-> 0, altitude |-> 0, groundspeed |-> 0, heading |-> 0,
     lat |-> 0, lon |-> 0, system_status |-> "UNKNOWN",
     connection_changed |-> FALSE, connection_event |-> ""]

\* status_dict.get(key, default)
Get(status_dict, key, default) ==
    IF key \in DOMAIN status_dict THEN status_dict[key] ELSE default

\* _parse_drone_status: the DroneStatus built from a status dictionary, given
\* the previous_connected entry of the vehicle
_parse_drone_status(previous, status_dict) ==
    LET connected == Get(status_dict, "connected", FALSE)
        position == Get(status_dict, "position", None)
        battery == Get(status_dict, "battery", None)
        gps == Get(status_dict, "gps", None)
    IN  [connected |-> connected,
         armed |-> Get(status_dict, "armed", FALSE),
         mode |-> Get(status_dict, "mode", "UNKNOWN"),
         altitude |-> Get(status_dict, "altitude", 0),
         groundspeed |-> Get(status_dict, "groundspeed", 0),
         heading |-> Get(status_dict, "heading", 0),
         system_status |-> Get(status_dict, "system_status", "UNKNOWN"),
         connection_changed |-> (connected # previous),
         connection_event |-> IF connected /\ ~previous THEN "CONNECTED"
                              ELSE IF ~connected /\ previous THEN "DISCONNECTED"
                              ELSE "",
         lat |-> IF position # None THEN position.lat ELSE 0,
         lon |-> IF position # None THEN position.lon ELSE 0,
         battery_percentage |-> IF battery # None THEN battery.percentage ELSE 0,
         battery_voltage |-> IF battery # None THEN battery.voltage ELSE 0,
         gps_fix |-> IF gps # None THEN gps.fix_type ELSE 0,
         gps_satellites |-> IF gps # None THEN gps.satellites_visible ELSE 0]

\* get_status(system_id): self.statuses.get(system_id, DroneStatus(...))
get_status(system_id) ==
    IF system_id \in DOMAIN statuses THEN statuses[system_id]
    ELSE DashboardStatusDefaults

\* the vehicle sends a message: it is queued on the socket of the node's link
MonitorVehicleSend(v, msg) ==
    /\ nodes[v].drone /\ ~nodes[v].closed
    /\ vsent[v] < MaxVehicleMsgs
    /\ Len(wire[v]) < MaxWire
    /\ wire' = [wire EXCEPT ![v] = Append(@, msg)]
    /\ vsent' = [vsent EXCEPT ![v] = @ + 1]
    /\ UNCHANGED <<monitoring, mpc, mi, nodes, received, tpc, statuses,
                   previous_connected, upd, stopper>>
    /\ UNCHANGED outsideMonitor

\* start_monitoring(): the monitor thread is started
StartMonitoring ==
    /\ ~monitoring /\ mpc = "off" /\ stopper = "none"
    /\ monitoring' = TRUE
    /\ mpc' = "top"
    /\ UNCHANGED <<mi, nodes, wire, vsent, received, tpc, statuses,
                   previous_connected, upd, stopper>>
    /\ UNCHANGED outsideMonitor

\* _monitor_loop: while self.monitoring
MonitorLoopTop ==
    /\ mpc = "top"
    /\ mpc' = IF monitoring THEN "visit" ELSE "exited"
    /\ mi' = 1
    /\ UNCHANGED <<monitoring, nodes, wire, vsent, received, tpc, statuses,
                   previous_connected, upd, stopper>>
    /\ UNCHANGED outsideMonitor

\* the loop's position once the visit of vehicle mi is over
AfterVisit == IF mi < LastVehicle THEN "visit" ELSE "sleep"
NextIndex == IF mi < LastVehicle THEN mi + 1 ELSE 1

\* connect(): mavutil.mavlink_connection(...) raises; self.drone stays None
\* and connect returns False
MonitorConnectOpenFails ==
    /\ mpc = "visit" /\ ~nodes[mi].drone
    /\ mpc' = AfterVisit
    /\ mi' = NextIndex
    /\ UNCHANGED <<monitoring, nodes, wire, vsent, received, tpc, statuses,
                   previous_connected, upd, stopper>>
    /\ UNCHANGED outsideMonitor

\* connect(): mavutil.mavlink_connection(...) creates the link object and
\* wait_heartbeat() is entered
MonitorConnectOpen ==
    /\ mpc = "visit" /\ ~nodes[mi].drone
    /\ nodes' = [nodes EXCEPT ![mi].drone = TRUE]
    /\ mpc' = "wait_heartbeat"
    /\ UNCHANGED <<monitoring, mi, wire, vsent, received, tpc, statuses,
                   previous_connected, upd, stopper>>
    /\ UNCHANGED outsideMonitor

\* connect(): wait_heartbeat() reads one message; a HEARTBEAT ends the wait,
\* then request_data_streams() either raises (connect returns False) or
\* start_status_tracking() runs and connect returns True
MonitorWaitHeartbeat(streams_ok) ==
    /\ mpc = "wait_heartbeat"
    /\ wire[mi] # <<>>
    /\ wire' = [wire EXCEPT ![mi] = Tail(@)]
    /\ received' = [received EXCEPT ![mi] = TRUE]
    /\ IF Head(wire[mi]).type = "HEARTBEAT"
       THEN /\ nodes' = [nodes EXCEPT ![mi].tracking = streams_ok]
            /\ mpc' = AfterVisit
            /\ mi' = NextIndex
       ELSE UNCHANGED <<nodes, mpc, mi>>
    /\ UNCHANGED <<monitoring, vsent, tpc, statuses, previous_connected, upd,
                   stopper>>
    /\ UNCHANGED outsideMonitor

\* connect(): wait_heartbeat() raises on a link error; connect returns False
\* and self.drone keeps the link object
MonitorConnectFails ==
    /\ mpc = "wait_heartbeat"
    /\ mpc' = AfterVisit
    /\ mi' = NextIndex
    /\ UNCHANGED <<monitoring, nodes, wire, vsent, received, tpc, statuses,
                   previous_connected, upd, stopper>>
    /\ UNCHANGED outsideMonitor

\* the rest of a visit once the flight mode question is settled:
\* get_drone_status(), _parse_drone_status(), self.statuses[system_id] = status
\* and status_updated.emit
PublishStatus(v, node) ==
    LET status_dict == get_drone_status(node.drone, node.is_armed,
                                        node.flight_mode, node.current_status)
        status == _parse_drone_status(previous_connected[v], status_dict)
    IN  /\ statuses' = [statuses EXCEPT ![v] = status]
        /\ previous_connected' = [previous_connected EXCEPT ![v] = status.connected]
        /\ upd' = [upd EXCEPT ![v] = ~@]
        /\ mpc' = AfterVisit
        /\ mi' = NextIndex

\* a visit of a node that has a link and a known flight mode
MonitorGetStatus ==
    /\ mpc = "visit" /\ nodes[mi].drone
    /\ nodes[mi].flight_mode # "None"
    /\ PublishStatus(mi, nodes[mi])
    /\ UNCHANGED <<monitoring, nodes, wire, vsent, received, tpc, stopper>>
    /\ UNCHANGED outsideMonitor

\* a visit of a node that has a link and no flight mode: get_drone_status
\* calls get_current_mode(), which sends its request and enters recv_match
MonitorModeRequest ==
    /\ mpc = "visit" /\ nodes[mi].drone
    /\ nodes[mi].flight_mode = "None"
    /\ mpc' = "mode_wait"
    /\ UNCHANGED <<monitoring, mi, nodes, wire, vsent, received, tpc, statuses,
                   previous_connected, upd, stopper>>
    /\ UNCHANGED outsideMonitor

\* get_current_mode(): recv_match(type='HEARTBEAT') reads one message; a
\* HEARTBEAT sets self.flight_mode and the visit goes on, any other message
\* is dropped
MonitorModeRecv ==
    /\ mpc = "mode_wait"
    /\ wire[mi] # <<>>
    /\ wire' = [wire EXCEPT ![mi] = Tail(@)]
    /\ received' = [received EXCEPT ![mi] = TRUE]
    /\ IF Head(wire[mi]).type = "HEARTBEAT"
       THEN LET node == [nodes[mi] EXCEPT
                            !.flight_mode = ApplyFlightMode(@, Head(wire[mi]))]
            IN  /\ nodes' = [nodes EXCEPT ![mi] = node]
                /\ PublishStatus(mi, node)
       ELSE UNCHANGED <<nodes, statuses, previous_connected, upd, mpc, mi>>
    /\ UNCHANGED <<monitoring, vsent, tpc, stopper>>
    /\ UNCHANGED outsideMonitor

\* get_current_mode(): recv_match returns None after its timeout; the visit
\* goes on with the flight mode unknown
MonitorModeTimeout ==
    /\ mpc = "mode_wait"
    /\ wire[mi] = <<>>
    /\ PublishStatus(mi, nodes[mi])
    /\ UNCHANGED <<monitoring, nodes, wire, vsent, received, tpc, stopper>>
    /\ UNCHANGED outsideMonitor

\* time.sleep(self.update_interval) at the end of a pass
MonitorSleep ==
    /\ mpc = "sleep"
    /\ mpc' = "top"
    /\ UNCHANGED <<monitoring, mi, nodes, wire, vsent, received, tpc, statuses,
                   previous_connected, upd, stopper>>
    /\ UNCHANGED outsideMonitor

\* _status_tracker of node v receives a message.  A GLOBAL_POSITION_INT is
\* applied by separate statements: this step writes current_status['altitude'],
\* the position and heading follow in MonitorTrackerPosition.  Any other
\* message is applied here.
MonitorTrackerRecv(v) ==
    /\ nodes[v].tracking /\ nodes[v].drone
    /\ tpc[v] = NoTelemetry
    /\ wire[v] # <<>>
    /\ wire' = [wire EXCEPT ![v] = Tail(@)]
    /\ received' = [received EXCEPT ![v] = TRUE]
    /\ LET msg == Head(wire[v])
       IN  IF msg.type = "GLOBAL_POSITION_INT"
           THEN /\ nodes' = [nodes EXCEPT ![v].current_status.altitude =
                                              msg.relative_alt \div 1000]
                /\ tpc' = [tpc EXCEPT ![v] = msg]
           ELSE /\ nodes' = [nodes EXCEPT
                               ![v].current_status = StatusTrackerApply(@, msg),
                               ![v].flight_mode = ApplyFlightMode(@, msg)]
                /\ UNCHANGED tpc
    /\ UNCHANGED <<monitoring, mpc, mi, vsent, statuses, previous_connected, upd,
                   stopper>>
    /\ UNCHANGED outsideMonitor

\* _status_tracker of node v writes the position and the heading of the
\* GLOBAL_POSITION_INT whose altitude it has written
MonitorTrackerPosition(v) ==
    /\ tpc[v] # NoTelemetry
    /\ nodes' = [nodes EXCEPT ![v].current_status = StatusTrackerApply(@, tpc[v])]
    /\ tpc' = [tpc EXCEPT ![v] = NoTelemetry]
    /\ UNCHANGED <<monitoring, mpc, mi, wire, vsent, received, statuses,
                   previous_connected, upd, stopper>>
    /\ UNCHANGED outsideMonitor

\* stop_monitoring(): self.monitoring = False, then the join is entered
StopMonitoring ==
    /\ stopper = "none"
    /\ mpc # "off"
    /\ monitoring' = FALSE
    /\ stopper' = "join"
    /\ UNCHANGED <<mpc, mi, nodes, wire, vsent, received, tpc, statuses,
                   previous_connected, upd>>
    /\ UNCHANGED outsideMonitor

\* stop_monitoring(): the monitor thread has ended, the join returns and
\* every node is cleaned up: its tracker is stopped and joined, its link closed
StopCleanup ==
    /\ stopper = "join"
    /\ mpc = "exited"
    /\ \A v \in Vehicles : tpc[v] = NoTelemetry
    /\ nodes' = [v \in Vehicles |->
                    [nodes[v] EXCEPT !.tracking = FALSE, !.closed = nodes[v].drone]]
    /\ stopper' = "done"
    /\ UNCHANGED <<monitoring, mpc, mi, wire, vsent, received, tpc, statuses,
                   previous_connected, upd>>
    /\ UNCHANGED outsideMonitor

InitMonitor ==
    /\ monitoring = FALSE
    /\ mpc = "off"
    /\ mi = 1
    /\ nodes = [v \in Vehicles |-> NewDroneNode]
    /\ wire = [v \in Vehicles |-> <<>>]
    /\ vsent = [v \in Vehicles |-> 0]
    /\ received = [v \in Vehicles |-> FALSE]
    /\ tpc = [v \in Vehicles |-> NoTelemetry]
    /\ statuses = [v \in Vehicles |-> DashboardStatusDefaults]
    /\ previous_connected = [v \in Vehicles |-> FALSE]
    /\ upd = [v \in Vehicles |-> FALSE]
    /\ stopper = "none"

\* the steps of the monitor thread that need no failure of the environment
MonitorThread ==
    \/ MonitorLoopTop
    \/ MonitorConnectOpen
    \/ \E ok \in BOOLEAN : MonitorWaitHeartbeat(ok)
    \/ MonitorGetStatus
    \/ MonitorModeRequest
    \/ MonitorModeRecv
    \/ MonitorModeTimeout
    \/ MonitorSleep

\* the steps of the tracker threads
TrackerThreads ==
    \E v \in Vehicles : MonitorTrackerRecv(v) \/ MonitorTrackerPosition(v)

NextMonitor ==
    \/ \E v \in Vehicles, msg \in MonitorMsgs : MonitorVehicleSend(v, msg)
    \/ StartMonitoring
    \/ MonitorThread
    \/ MonitorConnectOpenFails
    \/ MonitorConnectFails
    \/ TrackerThreads
    \/ StopMonitoring
    \/ StopCleanup

Init == InitServer /\ InitNode /\ InitTelemetry /\ InitMonitor

SpecServer == Init /\ [][NextServer]_vars

SpecNode == Init /\ [][NextNode]_vars

SpecFlight == Init /\ [][NextFlight]_vars

SpecMission == Init /\ [][NextMission]_vars

\* the tracker thread and the thread inside cleanup() are scheduled fairly;
\* the vehicle, the failures and the caller of cleanup() are under no
\* obligation
SpecCleanupFair ==
    Init /\ [][NextCleanup]_vars /\ WF_vars(TrackerThread) /\ WF_vars(CleanupThread)

SpecTelemetry == Init /\ [][NextTelemetry]_vars

SpecMonitor == Init /\ [][NextMonitor]_vars

\* the monitor thread and the tracker threads are scheduled fairly; the
\* vehicles, the failures of the links and the caller of stop_monitoring()
\* are under no obligation
SpecMonitorFair ==
    Init /\ [][NextMonitor]_vars /\ WF_vars(MonitorThread) /\ WF_vars(TrackerThreads)

\* SpecMonitorFair with the thread that called stop_monitoring() scheduled
\* fairly as well, once it has made the call
SpecMonitorStop ==
    Init /\ [][NextMonitor]_vars /\ WF_vars(MonitorThread) /\ WF_vars(TrackerThreads)
         /\ WF_vars(StopCleanup)

---------------------------------------------------------------------------
(* Claims about DroneNode, checked under SpecNode *)

\* caller c waits for an acknowledgment and its wait has not run out
Awaiting(c) == pc[c] \in WaitPcs /\ ~AckWaitExpired(timer[c])

\* a step that takes the first message off the link
HeadRead == channel # <<>> /\ channel' = Tail(channel)

\* C1: at most one command per vehicle is awaiting its acknowledgment at any
\* time (a second call made meanwhile is refused as Busy and sends nothing).
C1_OnePendingCommand ==
    Cardinality({c \in Callers : pc[c] \in WaitPcs}) <= 1

\* C2: when the only pending command is awaiting its acknowledgment, the
\* tracker is running, and a COMMAND_ACK with the command's code is read off
\* the link within the wait, that read resolves the command's attempt.
C2_AckDeliveredToWaiter ==
    [][\A c \in Callers :
          ( /\ Awaiting(c)
            /\ \A d \in Callers \ {c} : pc[d] \in {"idle", "done"}
            /\ tracking
            /\ HeadRead
            /\ Head(channel).type = "COMMAND_ACK"
            /\ Head(channel).command = CommandOf(cmd[c]) )
          => pc'[c] # pc[c]]_vars

\* C3: a telemetry message read off the link while a command is awaiting its
\* acknowledgment (the tracker running) is applied to the status snapshot.
C3_TelemetryAppliedDuringWait ==
    [][( /\ \E c \in Callers : Awaiting(c)
         /\ tracking
         /\ HeadRead
         /\ Head(channel).type \in TelemetryTypes )
       => current_status' = ApplyStatus(current_status, Head(channel))]_vars

\* C4: an acknowledgment of another command that a waiting command reads
\* within its wait does not end the attempt: the command keeps waiting.
C4_MismatchedAckKeepsAttempt ==
    [][\A c \in Callers :
          ( /\ Awaiting(c)
            /\ HeadRead
            /\ Head(channel).type = "COMMAND_ACK"
            /\ Head(channel).command # CommandOf(cmd[c]) )
          => (pc'[c] = pc[c] /\ ret'[c] = ret[c])]_vars

\* C5: a land call for which no acknowledgment ever arrives never sends more
\* than max_retries land messages, sends each one after the first at least
\* the per-attempt timeout after the one before, and returns failure after
\* exactly max_retries sends, every attempt timed out (max_retries = 3: three).
C5_LandRetryBound ==
    [][\A c \in Callers :
          (cmd'[c] = "land" /\ max_retries'[c] >= 1 /\ ~ackArrived')
          => /\ tx'[c] <= max_retries'[c]
             /\ (pc'[c] = "done" =>
                    /\ tx'[c] = max_retries'[c] /\ ret'[c] = "False"
                    /\ timeouts'[c] = max_retries'[c])
             /\ (tx'[c] = tx[c] + 1 /\ tx[c] >= 1 =>
                    sinceSend[c] >= RecvTimeoutSecs)]_vars

\* C5 witness: land(max_retries=3) has returned failure after three sends with
\* no acknowledgment ever sent by the vehicle.
C5_Witness ==
    \E c \in Callers :
        /\ cmd[c] = "land" /\ max_retries[c] = 3 /\ pc[c] = "done"
        /\ tx[c] = 3 /\ timeouts[c] = 3 /\ ret[c] = "False" /\ ~ackArrived

\* every attempt of the finished land call of c got a matching ack that was
\* not ACCEPTED
LandRejected(c) ==
    /\ cmd[c] = "land" /\ pc[c] = "done" /\ max_retries[c] >= 1
    /\ tx[c] = max_retries[c] /\ rej[c] = max_retries[c]

\* every attempt of the finished land call of c ended by the wait running out
LandTimedOut(c) ==
    /\ cmd[c] = "land" /\ pc[c] = "done" /\ max_retries[c] >= 1
    /\ tx[c] = max_retries[c] /\ timeouts[c] = max_retries[c]

\* C6: the outcome a caller gets from a land call whose every attempt was
\* rejected differs from the outcome of a land call whose every attempt timed
\* out (Rejected(reason) against TimedOut).
C6_RejectedDistinctFromTimedOut ==
    \A c, d \in Callers :
        (LandRejected(c) /\ LandTimedOut(d)) => ret[c] # ret[d]

---------------------------------------------------------------------------
(* Claims about MAVLinkServerThread, checked under SpecServer *)

\* C7: a session that stays silent past the timeout gets exactly one
\* DISCONNECTED signal for that silence: one as soon as a sweep has run past
\* the timeout, and no further one from the later sweeps of the same silence.
C7_OneDisconnectedPerSilence ==
    \A a \in seen :
        discRun[a] = (IF sweptSilent[a] >= 1 THEN 1 ELSE 0)

\* C7 witness: two sweeps have run during one silence and one signal was sent.
C7_Witness ==
    \E a \in seen : sweptSilent[a] = 2 /\ discRun[a] = 1

\* C8 as stated: a sweep keeps the session iff less than timeout has passed
\* since its last message, so a sweep exactly timeout after it disconnects.
C8_SweepAtTimeoutDisconnects ==
    [][(spc = "sweep" /\ spc' = "recv") =>
          \A a \in DOMAIN drones :
              (a \in DOMAIN drones') <=> (now - drones[a].last_heartbeat < timeout)]_vars

\* C8 amended: a sweep keeps the session iff at most timeout has passed since
\* its last message: a sweep at exactly timeout leaves it connected, a sweep
\* at any later time disconnects it.
C8_SweepPastTimeoutDisconnects ==
    [][(spc = "sweep" /\ spc' = "recv") =>
          \A a \in DOMAIN drones :
              (a \in DOMAIN drones') <=> (now - drones[a].last_heartbeat <= timeout)]_vars

\* C8 witness: a sweep ran exactly timeout after the last message and the
\* session is still connected; another session was disconnected by a sweep.
C8_Witness ==
    \E a \in Addr :
        /\ sweptAtLimit[a] /\ a \in DOMAIN drones /\ drones[a].connected
        /\ now - drones[a].last_heartbeat = timeout
        /\ \E b \in Addr : sweptSilent[b] >= 1 /\ b \notin DOMAIN drones

\* C9: every identity that ever sent a message still has a session in the
\* registry, whatever sweeps have run.
C9_SessionRetained ==
    seen \subseteq DOMAIN drones

\* C10: once an identity has been disconnected, its messages after that
\* produce exactly one CONNECTED signal until the next DISCONNECTED, however
\* many messages follow.
C10_OneConnectedPerResumption ==
    \A a \in Addr :
        disconnects[a] >= 1 => connRun[a] = (IF heard[a] THEN 1 ELSE 0)

\* C10 witness: a disconnected identity has resumed and sent further messages.
C10_Witness ==
    \E a \in Addr :
        /\ disconnects[a] >= 1 /\ heard[a] /\ connRun[a] = 1
        /\ a \in DOMAIN drones /\ drones[a].message_count >= 1

\* a step in which an identity that was disconnected sends a message again
Reconnection(a) ==
    /\ disconnects[a] >= 1
    /\ ~heard[a]
    /\ heard'[a]

\* C30: the message by which a disconnected identity is heard again leaves
\* the first-message time of its session as it was before the disconnect,
\* that is, no later than the identity's last message before the silence;
\* a session that is still held keeps its first-message time and loses no
\* counted message.
C30_ReconnectionKeepsSession ==
    [][\A a \in Addr :
          Reconnection(a) =>
              /\ a \in DOMAIN drones'
              /\ drones'[a].connected
              /\ drones'[a].first_message_time <= lastMsgAt[a]
              /\ a \in DOMAIN drones =>
                    /\ drones'[a].first_message_time = drones[a].first_message_time
                    /\ drones'[a].message_count >= drones[a].message_count]_vars

\* C31: the registry holds at most one session per address (it is a mapping
\* from addresses), every session has first_message_time <= last_heartbeat
\* <= now, and the last_heartbeat of an address never decreases: not from one
\* message to the next, and not from the last message before a disconnection
\* to the session a later message creates.
C31_OneSessionMonotoneLastSeen ==
    [][/\ DOMAIN drones' \subseteq Addr
       /\ \A a \in DOMAIN drones' :
             /\ drones'[a].first_message_time <= drones'[a].last_heartbeat
             /\ drones'[a].last_heartbeat <= now'
             /\ a \in seen => drones'[a].last_heartbeat >= lastMsgAt[a]
             /\ a \in DOMAIN drones =>
                   drones'[a].last_heartbeat >= drones[a].last_heartbeat]_vars

\* a session has received messages at different times, and another address
\* has a session again after its disconnection
C31_Witness ==
    \E a, b \in Addr :
        /\ a \in DOMAIN drones
        /\ drones[a].first_message_time < drones[a].last_heartbeat
        /\ b \in DOMAIN drones /\ disconnects[b] >= 1
        /\ drones[b].last_heartbeat > timeout

\* C33: for each address the CONNECTED and DISCONNECTED signals alternate,
\* starting with CONNECTED: no signal is emitted twice in a row, and no
\* DISCONNECTED is emitted for an address that has not been connected.
C33_EventsAlternate ==
    [][\A a \in Addr :
          /\ connRun'[a] <= 1 /\ discRun'[a] <= 1
          /\ connRun'[a] + discRun'[a] <= 1
          /\ disconnects'[a] >= 1 => a \in seen'
          /\ a \in DOMAIN drones' <=> connRun'[a] = 1
          /\ (a \in seen' /\ a \notin DOMAIN drones') <=> discRun'[a] = 1
          /\ connRun'[a] > connRun[a] => a \notin DOMAIN drones
          /\ discRun'[a] > discRun[a] => connRun[a] = 1]_vars

\* an address has been connected, disconnected and connected again, and
\* another one is disconnected
C33_Witness ==
    \E a, b \in Addr :
        /\ disconnects[a] = 1 /\ connRun[a] = 1 /\ discRun[a] = 0
        /\ a \in DOMAIN drones
        /\ disconnects[b] = 1 /\ discRun[b] = 1 /\ b \notin DOMAIN drones

---------------------------------------------------------------------------
(* Claims about telemetry aggregation, checked under SpecTelemetry *)

\* the fields of a server DroneStatus that one kind of message owns
ServerOwned(k, s) ==
    CASE k = "HEARTBEAT" -> <<s.armed, s.system_status, s.mode>>
      [] k = "GLOBAL_POSITION_INT" -> <<s.altitude, s.latitude, s.longitude>>
      [] k = "VFR_HUD" -> <<s.groundspeed>>
      [] k = "GPS_RAW_INT" -> <<s.gps_fix, s.gps_satellites>>
      [] k = "SYS_STATUS" -> <<s.battery_percent, s.battery_voltage>>

\* the fields of a DroneNode current_status that one kind of message owns
NodeOwned(k, s) ==
    CASE k = "HEARTBEAT" -> <<s.armed, s.system_status, s.mode>>
      [] k = "GLOBAL_POSITION_INT" -> <<s.altitude, s.position>>
      [] k = "VFR_HUD" -> <<s.groundspeed>>
      [] k = "GPS_RAW_INT" -> <<s.gps>>
      [] k = "SYS_STATUS" -> <<s.battery>>

\* the status that carries the values of message msg alone
ServerCarried(msg) ==
    IF msg = NoTelemetry THEN DroneStatusDefaults
    ELSE ParseTelemetry(DroneStatusDefaults, msg)

NodeCarried(msg) ==
    IF msg = NoTelemetry THEN CurrentStatusDefaults
    ELSE StatusTrackerApply(CurrentStatusDefaults, msg)

\* C13: after every finite message sequence of one vehicle, each status
\* field equals the value carried by the last message of the kind that owns
\* the field, the heading equals the one of the last message that carries a
\* heading, and the fields of a kind not yet received are untouched; in the
\* server's DroneStatus and in DroneNode's current_status alike.
C13_FieldsFromLastOwner ==
    nrecv > 0 =>
        /\ peer_status.present
        /\ \A k \in TelemetryKinds :
              /\ ServerOwned(k, peer_status) = ServerOwned(k, ServerCarried(lastOf[k]))
              /\ NodeOwned(k, node_status) = NodeOwned(k, NodeCarried(lastOf[k]))
        /\ peer_status.heading = ServerCarried(lastHdg).heading
        /\ node_status.heading = NodeCarried(lastHdg).heading

\* C14: whenever the message just processed is a heartbeat with the armed
\* flag set and mode code 4, the status shows armed = true and flight mode
\* GUIDED, whatever the position of the heartbeat in the sequence, the first
\* included.
C14_ArmedGuidedHeartbeatShown ==
    (/\ lastRecv.type = "HEARTBEAT"
     /\ ArmedFlag(lastRecv.base_mode)
     /\ lastRecv.custom_mode = 4)
    => /\ peer_status.present /\ peer_status.armed /\ peer_status.mode = "GUIDED"
       /\ node_status.armed /\ node_status.mode = "GUIDED"

\* a step that handles a position message whose heading is the
\* unknown-heading value
UnknownHeadingStep ==
    /\ nrecv' = nrecv + 1
    /\ lastRecv'.type = "GLOBAL_POSITION_INT"
    /\ lastRecv'.hdg = 65535

\* the status heading is the valid heading a received message carried
ServerHeadingValid ==
    /\ peer_status.present
    /\ lastHdg # NoTelemetry
    /\ peer_status.heading = ServerCarried(lastHdg).heading

NodeHeadingValid ==
    /\ lastHdg # NoTelemetry
    /\ node_status.heading = NodeCarried(lastHdg).heading

\* C15: a position message whose heading is 65535 leaves a valid status
\* heading as it was, in the server's DroneStatus and in DroneNode's
\* current_status.
C15_UnknownHeadingKeepsHeading ==
    [][UnknownHeadingStep =>
          /\ (ServerHeadingValid => peer_status'.heading = peer_status.heading)
          /\ (NodeHeadingValid => node_status'.heading = node_status.heading)]_vars

\* a step in which an established session and a tracked node handle msg
HandledStep(type) ==
    /\ nrecv' = nrecv + 1
    /\ lastRecv'.type = type

\* a heartbeat whose status code is no key of the MAV_STATE enumeration
MalformedHeartbeat(msg) ==
    msg.type = "HEARTBEAT" /\ msg.system_status \notin MAV_STATE_codes

\* the kinds of message other than k
OtherKinds(k) == TelemetryKinds \ {k}

\* C23: a telemetry message with a malformed field (a heartbeat whose status
\* code is in no table) updates every field it can supply (armed and flight
\* mode), leaves the fields of the other kinds of message as they were, and
\* the message that follows it is applied in full; in the server's
\* DroneStatus and in DroneNode's current_status.
C23_MalformedFieldIsolated ==
    [][/\ (HandledStep("HEARTBEAT") /\ MalformedHeartbeat(lastRecv')) =>
            /\ peer_status.present =>
                  /\ peer_status'.armed = ArmedFlag(lastRecv'.base_mode)
                  /\ lastRecv'.custom_mode = 0 => peer_status'.mode = "STABILIZE"
                  /\ \A k \in OtherKinds("HEARTBEAT") :
                        ServerOwned(k, peer_status') = ServerOwned(k, peer_status)
            /\ node_linked =>
                  /\ node_status'.armed = ArmedFlag(lastRecv'.base_mode)
                  /\ lastRecv'.custom_mode = 0 => node_status'.mode = "STABILIZE"
                  /\ \A k \in OtherKinds("HEARTBEAT") :
                        NodeOwned(k, node_status') = NodeOwned(k, node_status)
       /\ (/\ nrecv' = nrecv + 1
           /\ MalformedHeartbeat(lastRecv)
           /\ ~MalformedHeartbeat(lastRecv')) =>
            /\ peer_status.present =>
                  ServerOwned(lastRecv'.type, peer_status')
                      = ServerOwned(lastRecv'.type, ServerCarried(lastRecv'))
            /\ node_linked =>
                  NodeOwned(lastRecv'.type, node_status')
                      = NodeOwned(lastRecv'.type, NodeCarried(lastRecv'))]_vars

\* the status codes and the mode numbers that the tables name
StatusTable == 0..8
ModeTable == {0, 2, 3, 4, 6, 9}

\* C27: every heartbeat handled for an established session sets armed to the
\* 0x80 bit of base_mode; a status code outside the table is shown as
\* UNKNOWN(code), and a mode number outside the mode table is shown as the
\* raw fallback string, never left at the previous mode.
C27_HeartbeatUpdatesAllThree ==
    [][HandledStep("HEARTBEAT") =>
          LET m == lastRecv'
              bit == (m.base_mode \div 128) % 2 = 1
          IN  /\ peer_status.present =>
                    /\ peer_status'.armed = bit
                    /\ m.system_status \notin StatusTable =>
                          peer_status'.system_status = "UNKNOWN(code)"
                    /\ m.custom_mode \notin ModeTable =>
                          peer_status'.mode = "MODE_n"
              /\ node_linked =>
                    /\ node_status'.armed = bit
                    /\ m.system_status \notin StatusTable =>
                          node_status'.system_status = "UNKNOWN(code)"
                    /\ m.custom_mode \notin ModeTable =>
                          node_status'.mode = "MODE_n"]_vars

\* a status value that is a number
IsNumber(v) == v \in Int

\* C28: a SYS_STATUS message whose battery percentage is -1 leaves no number
\* in the percentage field of the status, and one whose current is -1 leaves
\* no number in the current field.
C28_NotReportedIsNull ==
    [][HandledStep("SYS_STATUS") =>
          LET m == lastRecv'
          IN  /\ (peer_status.present /\ m.battery_remaining = -1) =>
                    ~IsNumber(peer_status'.battery_percent)
              /\ (peer_status.present /\ m.current_battery = -1) =>
                    ~IsNumber(peer_status'.battery_current)
              /\ (node_linked /\ m.battery_remaining = -1) =>
                    ~IsNumber(node_status'.battery.percentage)]_vars

\* C29: a GPS_RAW_INT message changes no field of the status other than the
\* fix type and the satellite count.
C29_GpsQualityWritesOnlyFixAndSatellites ==
    [][HandledStep("GPS_RAW_INT") =>
          /\ peer_status.present =>
                [peer_status' EXCEPT !.gps_fix = peer_status.gps_fix,
                                     !.gps_satellites = peer_status.gps_satellites]
                    = peer_status
          /\ node_linked =>
                [node_status' EXCEPT !.gps = node_status.gps] = node_status]_vars

\* the heading, in hundredths of a degree, that a raw heading h stands for:
\* h / 100 degrees when h > 360, h degrees otherwise
HeadingOfRaw(h) == IF h > 360 THEN h ELSE h * 100

\* C32: a position message whose raw heading h is not 65535 sets the status
\* heading to h / 100 degrees when h > 360 and to h degrees otherwise, in the
\* server's DroneStatus and in DroneNode's current_status, and the heading
\* set lies in 0..360 degrees.
C32_HeadingScaled ==
    [][(HandledStep("GLOBAL_POSITION_INT") /\ lastRecv'.hdg # 65535) =>
          /\ peer_status.present =>
                /\ peer_status'.heading = HeadingOfRaw(lastRecv'.hdg)
                /\ peer_status'.heading \in 0..36000
          /\ node_linked =>
                /\ node_status'.heading = Some(HeadingOfRaw(lastRecv'.hdg))
                /\ node_status'.heading.val \in 0..36000]_vars

---------------------------------------------------------------------------
(* Claims about arming and actuation in DroneNode, checked under SpecNode *)

\* the armed field of the status snapshot, read as status_dict.get('armed', False)
SnapshotArmed ==
    LET status == get_drone_status(drone, is_armed, flight_mode, current_status)
    IN  IF "armed" \in DOMAIN status THEN status.armed ELSE FALSE

\* a step in which the status tracker applies a heartbeat
TrackerAppliesHeartbeat ==
    /\ tracking /\ HeadRead
    /\ Head(channel).type = "HEARTBEAT"
    /\ current_status' = ApplyStatus(current_status, Head(channel))

\* a step in which a read takes an accepted arm acknowledgment off the link
AcceptedArmAckRead ==
    HeadRead /\ Head(channel) = CommandAck("ARM_DISARM", "ACCEPTED")

SetThrottleCall(c) == pc[c] = "idle" /\ cmd'[c] = "set_throttle"

\* C18: set_throttle sends an actuation message only if the status snapshot
\* shows armed = true when it is called; in every other state it returns
\* False and sends nothing.
C18_ThrottleOnlyIfSnapshotArmed ==
    [][\A c \in Callers :
          SetThrottleCall(c) =>
              /\ sent'[c] # sent[c] => SnapshotArmed
              /\ ~SnapshotArmed => ret'[c] = "False" /\ sent'[c] = sent[c]]_vars


\* a step in which a read takes an accepted land acknowledgment off the link
AcceptedLandAckRead ==
    HeadRead /\ Head(channel) = CommandAck("NAV_LAND", "ACCEPTED")

\* a step in which a read takes a land acknowledgment with another result
\* code off the link
RejectedLandAckRead ==
    /\ HeadRead
    /\ Head(channel).type = "COMMAND_ACK"
    /\ Head(channel).command = "NAV_LAND"
    /\ Head(channel).result # "ACCEPTED"

\* C25: land(max_retries=N) returns True exactly in a step in which one of
\* its attempts k <= N reads an accepted NAV_LAND acknowledgment; it has then
\* sent exactly k land messages and sends none after its return; a NAV_LAND
\* acknowledgment with another result ends the attempt as a rejection, which
\* is followed by a further attempt while k < N and by the return of False
\* when k = N.
C25_LandSucceedsOnAcceptedAck ==
    [][\A c \in Callers :
          cmd[c] = "land" =>
              /\ (ret'[c] = "True" /\ ret[c] # "True") =>
                    /\ pc[c] = "land_wait" /\ AcceptedLandAckRead
                    /\ attempts[c] <= max_retries[c]
                    /\ tx'[c] = attempts[c]
                    /\ pc'[c] = "done"
              /\ (pc[c] = "land_wait" /\ pc'[c] # "land_wait" /\ AcceptedLandAckRead) =>
                    ret'[c] = "True"
              /\ pc[c] = "done" => (tx'[c] = tx[c] /\ sent'[c] = sent[c])
              /\ (pc[c] = "land_wait" /\ pc'[c] # "land_wait" /\ RejectedLandAckRead) =>
                    /\ rej'[c] = rej[c] + 1
                    /\ IF attempts[c] < max_retries[c]
                       THEN pc'[c] = "land_sleep" /\ ret'[c] = "pending"
                       ELSE pc'[c] = "done" /\ ret'[c] = "False"]_vars

\* land(max_retries=3) has returned True on its second attempt, the first
\* one rejected, after two land messages
C25_Witness ==
    \E c \in Callers :
        /\ cmd[c] = "land" /\ max_retries[c] = 3 /\ pc[c] = "done"
        /\ ret[c] = "True" /\ rej[c] = 1 /\ attempts[c] = 2
        /\ sent[c] = <<"NAV_LAND", "NAV_LAND">>

---------------------------------------------------------------------------
(* Claims about takeoff, fly_to_target and set_throttle in DroneNode,       *)
(* checked under SpecFlight                                                *)

\* a step in which caller c's takeoff call sends the takeoff message
TakeoffMessageSent(c) ==
    /\ cmd[c] = "takeoff"
    /\ sent'[c] = Append(sent[c], "NAV_TAKEOFF")

\* C21: takeoff sends the takeoff message only after the arm call it makes
\* has sent its request and returned (True on an accepted ack, False on a
\* rejection or when its wait ran out), and the takeoff message's param7 is
\* the caller's target altitude.
C21_TakeoffAfterArmResolved ==
    [][\A c \in Callers :
          TakeoffMessageSent(c) =>
              /\ ret[c] \in {"True", "False"}
              /\ sent[c] = <<"SET_MODE", "COMPONENT_ARM_DISARM">>
              /\ param'[c] = target_altitude[c]
              /\ target_altitude[c] \in AltitudeChoices]_vars

\* a takeoff call with target altitude 20 has sent its takeoff message after
\* its arm request was rejected
C21_Witness ==
    \E c \in Callers :
        /\ cmd[c] = "takeoff" /\ target_altitude[c] = 20 /\ param[c] = 20
        /\ sent[c] = <<"SET_MODE", "COMPONENT_ARM_DISARM", "NAV_TAKEOFF">>
        /\ rej[c] >= 1 /\ pc[c] = "takeoff_wait"

\* C22: fly_to_target returns True exactly when the mode observed after the
\* settle delay is GUIDED, and returns False, without raising, when it is
\* any other mode.
C22_GotoSuccessIffGuided ==
    [][\A c \in Callers :
          (pc[c] = "goto_wait" /\ pc'[c] = "done") =>
              /\ ret'[c] = "True" <=> flight_mode' = "GUIDED"
              /\ flight_mode' # "GUIDED" => ret'[c] = "False"]_vars

\* the message that is a command's own
OwnMessage(k) ==
    CASE k = "arm" -> "COMPONENT_ARM_DISARM"
      [] k = "disarm" -> "COMPONENT_ARM_DISARM"
      [] k = "takeoff" -> "NAV_TAKEOFF"
      [] k = "fly_to_target" -> "SET_POSITION_TARGET_GLOBAL_INT"

\* the number of times message m occurs in the sequence seq
Count(seq, m) == Cardinality({i \in 1..Len(seq) : seq[i] = m})

C26_ThrottleScaling ==
    [][\A c \in Callers, v \in ThrottleValues :
          (SetThrottle(c, v) /\ drone /\ is_armed) =>
              IF 0 <= v /\ v <= 100
              THEN /\ sent'[c] = Append(sent[c], "RC_CHANNELS_OVERRIDE")
                   /\ param'[c] = 1000 + 10 * v
                   /\ param'[c] \in 1000..2000
                   /\ ret'[c] = "True"
              ELSE /\ sent'[c] = sent[c]
                   /\ param'[c] = param[c]
                   /\ ret'[c] = "False"]_vars

\* after an accepted arm, set_throttle(100) has sent the upper end of the
\* actuation range
C26_Witness ==
    \E c, d \in Callers :
        /\ cmd[c] = "arm" /\ ret[c] = "True" /\ is_armed /\ drone
        /\ cmd[d] = "set_throttle" /\ ret[d] = "True" /\ param[d] = 2000
        /\ sent[d] = <<"RC_CHANNELS_OVERRIDE">>

\* C37: takeoff sends the takeoff message only if the arm call it makes has
\* returned True; after a rejected or unacknowledged arm it sends none.
C37_TakeoffOnlyWhenArmed ==
    [][\A c \in Callers : TakeoffMessageSent(c) => ret[c] = "True"]_vars

\* the step reads a heartbeat that reports the GUIDED mode
GuidedHeartbeatRead ==
    /\ channel # <<>>
    /\ Head(channel).type = "HEARTBEAT"
    /\ ModeName(Head(channel).custom_mode) = "GUIDED"
    /\ channel' = Tail(channel)

\* C38: fly_to_target returns True only if a heartbeat received after the
\* position target was sent reports the GUIDED mode.  Stated for a node whose
\* status tracker is not running, where get_current_mode is the only reader
\* of heartbeats: the step in which the call returns True reads that
\* heartbeat.
C38_GotoNeedsConfirmedMode ==
    [][\A c \in Callers :
          (pc[c] = "goto_wait" /\ pc'[c] = "done" /\ ret'[c] = "True" /\ ~tracking) =>
              GuidedHeartbeatRead]_vars

---------------------------------------------------------------------------
(* Claims about the armed flag, calls without a link and fly_to_here in      *)
(* DroneNode, checked under SpecMission                                     *)

\* C34: is_armed changes only in a step in which arm (also when takeoff or
\* fly_to_here called it) or disarm reads a COMMAND_ACK of ARM_DISARM with
\* the result ACCEPTED, to TRUE for arm and to FALSE for disarm; every other
\* step, of any command, leaves it as it was.
C34_ArmedChangesOnAcceptedAck ==
    [][is_armed' # is_armed =>
          /\ channel # <<>>
          /\ Head(channel) = CommandAck("ARM_DISARM", "ACCEPTED")
          /\ channel' = Tail(channel)
          /\ \E c \in Callers :
                /\ pc[c] \in {"arm_wait", "disarm_wait"}
                /\ pc'[c] # pc[c]
                /\ is_armed' = (pc[c] = "arm_wait")]_vars

\* an accepted arm set the flag, and a land call made after it ran out of
\* attempts and left the flag set
C34_Witness ==
    \E c, d \in Callers :
        /\ cmd[c] = "arm" /\ ret[c] = "True"
        /\ cmd[d] = "land" /\ pc[d] = "done" /\ ret[d] = "False"
        /\ attempts[d] = DefaultRetries
        /\ is_armed

\* the commands of DroneNode
CommandNames ==
    {"arm", "disarm", "takeoff", "land", "set_flight_mode", "set_throttle",
     "fly_to_here", "fly_to_target"}

\* C35: a command called while the node has no link returns False, raises
\* nothing, sends nothing and leaves the node's state as it was.
C35_NoLinkFails ==
    [][\A c \in Callers :
          (~drone /\ pc[c] = "idle" /\ pc'[c] # "idle") =>
              /\ cmd'[c] \in CommandNames
              /\ pc'[c] = "done"
              /\ ret'[c] = "False"
              /\ sent' = sent
              /\ UNCHANGED <<drone, tracking, is_armed, flight_mode, current_status,
                             channel>>]_vars

\* a step of fly_to_here that sends the position target
PositionTargetSent(c) ==
    /\ cmd[c] = "fly_to_here"
    /\ Count(sent'[c], "SET_POSITION_TARGET_GLOBAL_INT") >
          Count(sent[c], "SET_POSITION_TARGET_GLOBAL_INT")

---------------------------------------------------------------------------
(* Claims about DroneMonitor, checked under SpecMonitor and SpecMonitorFair *)

\* C11: while the monitor loop keeps completing its passes, a vehicle that
\* is reported connected and sends no further message is eventually reported
\* with connected = false (every vehicle of the model falls silent after
\* MaxVehicleMsgs messages).
C11_SilentVehicleReportedDisconnected ==
    \A v \in Vehicles :
        ([]<>(mpc = "sleep")) => [](statuses[v].connected => <>(~statuses[v].connected))

\* C12: a vehicle is reported connected, or with the CONNECTED event, only
\* after a message has been received from it; a connect() that created the
\* link and then failed does not make it so.
C12_ConnectedOnlyAfterMessage ==
    \A v \in Vehicles :
        (statuses[v].connected \/ statuses[v].connection_event = "CONNECTED")
            => received[v]

\* the identities a status query is made for: the configured ones and one
\* that is not configured
QueryIds == Vehicles \cup {Cardinality(Vehicles) + 1}

\* C16: in every state of the monitor, a status query for an identity from
\* which no message was ever received returns connected = false and the
\* default telemetry fields.
C16_QueryWithoutMessageIsDefault ==
    \A id \in QueryIds :
        (id \notin Vehicles \/ ~received[id]) => get_status(id) = DashboardStatusDefaults

\* the altitude and the position that one position message carries
PositionGroup(msg) ==
    <<msg.relative_alt \div 1000, msg.lat \div 10000000, msg.lon \div 10000000>>

\* C19: the altitude and the position of a status read by the monitor come
\* from the same position message, or are both still the initial ones.
C19_PositionGroupFromOneMessage ==
    \A v \in Vehicles :
        \/ <<statuses[v].altitude, statuses[v].lat, statuses[v].lon>> = <<0, 0, 0>>
        \/ \E msg \in MonitorMsgs :
              /\ msg.type = "GLOBAL_POSITION_INT"
              /\ <<statuses[v].altitude, statuses[v].lat, statuses[v].lon>>
                    = PositionGroup(msg)

\* C20: as long as monitoring is on, a vehicle whose node is connected keeps
\* getting status updates, whatever the other vehicle's link does.
C20_OtherVehiclesKeepUpdates ==
    \A v \in Vehicles :
        (<>[](monitoring /\ nodes[v].tracking))
            => ([]<>upd[v] /\ []<>(~upd[v]))

\* C39: once stop_monitoring() has been called it returns, whatever the
\* monitor loop is doing at that time, also when the loop is inside connect()
\* for a vehicle that has never sent a heartbeat.
C39_StopMonitoringReturns == (stopper = "join") ~> (stopper = "done")

---------------------------------------------------------------------------
(* Claims about cleanup() of DroneNode, checked under SpecCleanupFair *)

\* C40: cleanup() closes the link only after the tracker thread has ended:
\* while the link is closed there is no tracker thread or it has ended, no
\* step of the tracker reads from a closed link, and stop_status_tracking()
\* always returns, so that every cleanup() that has been started returns.
C40_CloseAfterTrackerEnded ==
    /\ [](closed => tracker_thread \in {"None", "ended"})
    /\ [][TrackerRead => ~closed]_vars
    /\ \A c \in Callers : (pc[c] = "cleanup_join") ~> (pc[c] = "done")

\* cleanup() has closed the link of a connected node whose tracker thread
\* has ended, with a message of the vehicle left unread
C40_Witness ==
    \E c \in Callers :
        /\ cmd[c] = "cleanup" /\ pc[c] = "done"
        /\ cpc = "connected" /\ ~tracking
        /\ tracker_thread = "ended" /\ closed
        /\ channel # <<>>

===========================================================================
